---- MODULE Spec2Model ----
(***************************************************************************)
(* A model of the Salesforce "Next Best Action" demo applications:         *)
(*   - execute_action_plan                    (src/main2.py)               *)
(*   - the tenacity retry wrappers            (src/extra.py, crewai client)*)
(*   - the health-score heuristic and summary (src/Frameworks/langgraph.py)*)
(*   - the open-opportunity counts            (langgraph, autogen, crewai) *)
(*   - NextBestActionRecommendation.json()    (src/Frameworks/crewai.py)   *)
(*   - the LangGraph workflow graph           (src/Frameworks/langgraph.py)*)
(*   - the main2 dashboard                    (src/main2.py)               *)
(*   - run_parallel_analysis, consensus       (salesforce_nba_unified.py)  *)
(*   - the crewai agents, client and actions  (src/Frameworks/crewai/src)  *)
(*   - run_analysis and AccountAnalysis       (src/Frameworks/crewai/src)  *)
(*   - analyze_customer_sentiment             (crewai.py, analysis_tools.py)*)
(*   - _extract_results                       (src/Frameworks/autogen.py)  *)
(*   - the execution report, batch processing (src/extra.py)               *)
(* Each component has its own specification; the variables of the other    *)
(* components stay at their initial values.                                *)
(***************************************************************************)
EXTENDS Integers, Sequences, FiniteSets, TLC

VARIABLES
    \* execute_action_plan (src/main2.py:169-217)
    action_plan,    \* action_plan['steps']: the sequence of step records
    results,        \* the local list `results`
    step_i,         \* number of steps the for loop has consumed
    ex_pc,          \* "loop" | "returned" | "raised"
    sf_records,     \* records the CRM has accepted (Task / Case creates)
    try_raised,     \* history: for each step consumed, did its try block raise
    report,         \* the execution report built after the call (src/extra.py:66-68)
    \* the tenacity retry wrappers (src/extra.py:154-157, crewai client.py:38-66)
    rt_target,      \* the wrapped function: "robust_salesforce_query" | "get_account"
    rt_pc,          \* "calling" | "returned" | "raised"
    attempt_number, \* tenacity's attempt number: invocations of the wrapped function
    call_log,       \* history: the outcome of each finished invocation
    rt_value,       \* the value the wrapper returned to its caller
    connection,     \* SalesforceClient._connection is set
    logins,         \* number of Salesforce(...) logins attempted by _connect
    ga_pos,         \* get_account: number of queries of this invocation that succeeded
    queries_sent,   \* get_account: number of queries of each kind sent to the CRM
    \* the context-formatting steps and the health heuristic
    crm,            \* what the CRM returns for the account: revenue, contacts, ...
    ctx_fw,         \* which framework's formatting step has run
    ctx_out,        \* what that step produced (or that it raised)
    analysis,       \* what analyze_account_health returned for ctx_out
    \* NextBestActionRecommendation and its JSON form
    recommendation, \* the recommendation object
    json_text,      \* recommendation.json(): a sequence of characters
    parsed,         \* the recommendation parsed back from json_text
    \* SalesforceNBAWorkflow (src/Frameworks/langgraph.py:113-328)
    wf_crm,         \* what the CRM answers to fetch_salesforce_data in this run
    node,           \* the node the graph runs next, "END", or "aborted"
    trace,          \* history: the nodes that have run, in order
    state,          \* the SalesforceNBAState dict handed from node to node
    tasks_created,  \* number of Task records the CRM has created
    \* the main2 dashboard (src/main2.py:10-20, 219-377)
    session_state,  \* st.session_state: the slots the script reads and writes
    last_run,       \* the last script run: the button pressed and what it showed
    done,           \* history: the pipeline steps that have succeeded so far
    account_id,     \* the content of the account id text input (main2.py:261)
    derived_from,   \* history: the account each stored result was derived from
    executed,       \* history: the last execute_action_plan call of the dashboard
    \* FrameworkOrchestrator.run_parallel_analysis (salesforce_nba_unified.py:204-217)
    pa_pc,          \* the caller: "submit" | "collect" | "shutdown" | "returned"
    pa_account_data,\* the account_data dict shared by the caller and the workers
    pa_input,       \* history: account_data as it was when the call started
    futures,        \* per framework name: the future's task state and result
    pa_results,     \* the local dict `results`
    \* BaseNBAAgent and its subclasses (crewai/src/agents/base_agent.py:8-57)
    wrapper,        \* the wrapper object: its class, llm and verbose flag
    self_agent,     \* the wrapper's _agent attribute: None or the Agent created
    agents_created, \* number of Agent(...) objects constructed so far
    accesses,       \* history: what each access of the agent property returned
    \* SalesforceActions (crewai/src/integrations/salesforce/actions.py:9-150)
    sa_connection,  \* the client's cached connection exists
    sa_calls,       \* history: each operation called, what it returned, its writes
    sa_writes,      \* the writes the CRM has received, in order
    \* NBAWorkflow.run_analysis and AccountAnalysis (crewai/src/workflows, models)
    an_account_id,  \* the account_id passed to run_analysis
    an_kwargs,      \* keyword arguments of a direct AccountAnalysis(...) call
    an_run,         \* history: what run_analysis met and what it returned
    an_built,       \* what AccountAnalysis(**an_kwargs) returned
    \* SalesforceClient.connection (crewai/src/integrations/salesforce/client.py:13-35)
    cl_client,      \* which SalesforceClient object the session holds (0: none yet)
    cl_connection,  \* its _connection: 0 for None, else the Salesforce object
    cl_logins,      \* number of Salesforce(...) logins attempted so far
    cl_log,         \* history: each access to .connection and what it did
    \* analyze_customer_sentiment (crewai.py:84-104, crewai/src/tools/analysis_tools.py:8-44)
    se_cases,       \* account_data['cases']
    se_version,     \* which of the two functions was called
    se_out,         \* what it returned (or that it raised)
    \* FrameworkOrchestrator.generate_consensus (salesforce_nba_unified.py:234-254)
    co_scores,      \* the health scores of all_analyses.values(), in order
    co_out,         \* what generate_consensus returned
    \* AutoGenNBAWorkflow._extract_results (autogen.py:202-228)
    xr_conversation, \* history: the conversation before the call
    xr_messages,    \* self.group_chat.messages
    xr_results,     \* what _extract_results returned
    \* process_multiple_accounts (src/extra.py:104-132)
    pm_account_ids, \* the account_ids argument
    pm_i,           \* number of ids the for loop has consumed
    pm_rows,        \* the local list `results`
    pm_calls,       \* history: the account id of every get_account_data call
    pm_pc           \* "loop" | "returned"

exVars == <<action_plan, results, step_i, ex_pc, sf_records, try_raised, report>>
rtVars == <<rt_target, rt_pc, attempt_number, call_log, rt_value, connection, logins,
            ga_pos, queries_sent>>

ctxVars == <<crm, ctx_fw, ctx_out, analysis>>

recVars == <<recommendation, json_text, parsed>>

wfVars == <<wf_crm, node, trace, state, tasks_created>>

dbVars == <<session_state, last_run, done, account_id, derived_from, executed>>

paVars == <<pa_pc, pa_account_data, pa_input, futures, pa_results>>

agVars == <<wrapper, self_agent, agents_created, accesses>>

saVars == <<sa_connection, sa_calls, sa_writes>>

anVars == <<an_account_id, an_kwargs, an_run, an_built>>

clVars == <<cl_client, cl_connection, cl_logins, cl_log>>

seVars == <<se_cases, se_version, se_out>>

coVars == <<co_scores, co_out>>

xrVars == <<xr_conversation, xr_messages, xr_results>>

pmVars == <<pm_account_ids, pm_i, pm_rows, pm_calls, pm_pc>>

vars == <<exVars, rtVars, ctxVars, recVars, wfVars, dbVars, paVars, agVars, saVars, anVars, clVars, seVars, coVars, xrVars, pmVars>>

\* What each component leaves alone: the variables of the others.
ExFrame == UNCHANGED <<rtVars, ctxVars, recVars, wfVars, dbVars, paVars, agVars, saVars, anVars, clVars, seVars, coVars, xrVars, pmVars>>
RtFrame == UNCHANGED <<exVars, ctxVars, recVars, wfVars, dbVars, paVars, agVars, saVars, anVars, clVars, seVars, coVars, xrVars, pmVars>>
CtxFrame == UNCHANGED <<exVars, rtVars, recVars, wfVars, dbVars, paVars, agVars, saVars, anVars, clVars, seVars, coVars, xrVars, pmVars>>
RecFrame == UNCHANGED <<exVars, rtVars, ctxVars, wfVars, dbVars, paVars, agVars, saVars, anVars, clVars, seVars, coVars, xrVars, pmVars>>
WfFrame == UNCHANGED <<exVars, rtVars, ctxVars, recVars, dbVars, paVars, agVars, saVars, anVars, clVars, seVars, coVars, xrVars, pmVars>>
DbFrame == UNCHANGED <<exVars, rtVars, ctxVars, recVars, wfVars, paVars, agVars, saVars, anVars, clVars, seVars, coVars, xrVars, pmVars>>
PaFrame == UNCHANGED <<exVars, rtVars, ctxVars, recVars, wfVars, dbVars, agVars, saVars, anVars, clVars, seVars, coVars, xrVars, pmVars>>
AgFrame == UNCHANGED <<exVars, rtVars, ctxVars, recVars, wfVars, dbVars, paVars, saVars, anVars, clVars, seVars, coVars, xrVars, pmVars>>
SaFrame == UNCHANGED <<exVars, rtVars, ctxVars, recVars, wfVars, dbVars, paVars, agVars, anVars, clVars, seVars, coVars, xrVars, pmVars>>
AnFrame == UNCHANGED <<exVars, rtVars, ctxVars, recVars, wfVars, dbVars, paVars, agVars, saVars, clVars, seVars, coVars, xrVars, pmVars>>
ClFrame == UNCHANGED <<exVars, rtVars, ctxVars, recVars, wfVars, dbVars, paVars, agVars, saVars, anVars, seVars, coVars, xrVars, pmVars>>
SeFrame == UNCHANGED <<exVars, rtVars, ctxVars, recVars, wfVars, dbVars, paVars, agVars, saVars, anVars, clVars, coVars, xrVars, pmVars>>
CoFrame == UNCHANGED <<exVars, rtVars, ctxVars, recVars, wfVars, dbVars, paVars, agVars, saVars, anVars, clVars, seVars, xrVars, pmVars>>
XrFrame == UNCHANGED <<exVars, rtVars, ctxVars, recVars, wfVars, dbVars, paVars, agVars, saVars, anVars, clVars, seVars, coVars, pmVars>>
PmFrame == UNCHANGED <<exVars, rtVars, ctxVars, recVars, wfVars, dbVars, paVars, agVars, saVars, anVars, clVars, seVars, coVars, xrVars>>

\* A key a dict does not hold.
Missing == "<missing>"

\* No execution report has been built.
NoReport == [kind |-> "none"]

\* Python's None.
None == "<None>"

\* The queries of one get_account invocation, in the order they are issued
\* (client.py:44-50).
QueryOrder == <<"account", "contacts", "opportunities", "cases", "tasks">>

\* The components at rest: each specification runs one component and leaves
\* the others in these states.
ExIdle ==
    /\ action_plan = <<>>
    /\ results = <<>>
    /\ step_i = 0
    /\ ex_pc = "idle"
    /\ sf_records = <<>>
    /\ try_raised = <<>>
    /\ report = NoReport

RtIdle ==
    /\ rt_target = None
    /\ rt_pc = "idle"
    /\ attempt_number = 0
    /\ call_log = <<>>
    /\ rt_value = None
    /\ connection = FALSE
    /\ logins = 0
    /\ ga_pos = 0
    /\ queries_sent = [k \in {} |-> 0]

\* A value not produced yet.
NoOutput == [kind |-> "none"]

\* An exception of the given type left the function.
Raised(type) == [kind |-> "raised", error |-> type]

CtxIdle ==
    /\ crm = NoOutput
    /\ ctx_fw = None
    /\ ctx_out = NoOutput
    /\ analysis = NoOutput

RecIdle ==
    /\ recommendation = NoOutput
    /\ json_text = <<>>
    /\ parsed = NoOutput

WfIdle ==
    /\ wf_crm = NoOutput
    /\ node = "idle"
    /\ trace = <<>>
    /\ state = NoOutput
    /\ tasks_created = 0

DbIdle ==
    /\ session_state = NoOutput
    /\ last_run = NoOutput
    /\ done = {}
    /\ account_id = ""
    /\ derived_from = NoOutput
    /\ executed = NoOutput

PaIdle ==
    /\ pa_pc = "idle"
    /\ pa_account_data = NoOutput
    /\ pa_input = NoOutput
    /\ futures = <<>>
    /\ pa_results = <<>>

AgIdle ==
    /\ wrapper = NoOutput
    /\ self_agent = NoOutput
    /\ agents_created = 0
    /\ accesses = <<>>

SaIdle ==
    /\ sa_connection = FALSE
    /\ sa_calls = <<>>
    /\ sa_writes = <<>>

AnIdle ==
    /\ an_account_id = ""
    /\ an_kwargs = NoOutput
    /\ an_run = NoOutput
    /\ an_built = NoOutput

ClIdle ==
    /\ cl_client = 0
    /\ cl_connection = 0
    /\ cl_logins = 0
    /\ cl_log = <<>>

SeIdle ==
    /\ se_cases = <<>>
    /\ se_version = ""
    /\ se_out = NoOutput

CoIdle ==
    /\ co_scores = <<>>
    /\ co_out = NoOutput

XrIdle ==
    /\ xr_conversation = <<>>
    /\ xr_messages = <<>>
    /\ xr_results = NoOutput

PmIdle ==
    /\ pm_account_ids = <<>>
    /\ pm_i = 0
    /\ pm_rows = <<>>
    /\ pm_calls = <<>>
    /\ pm_pc = "idle"

(***************************************************************************)
(* execute_action_plan                                                     *)
(***************************************************************************)

\* Largest number of steps in a plan.
MaxSteps == 3

\* The action types the planner prompt allows (src/main2.py:163).
AllowedActions == {"create_task", "update_opportunity", "create_case", "send_email"}

\* A step as the planner is asked to produce it: every key present.
WellFormedStep(a) ==
    [salesforce_action |-> a, title |-> "title_" \o a,
     description |-> "d", due_date |-> "2024-01-15"]

\* Step records the LLM-produced plan may hold: the well-formed steps of the
\* four allowed action types, and malformed ones (a key missing).
StepRecords ==
    { WellFormedStep(a) : a \in AllowedActions }
    \cup { [WellFormedStep("create_task") EXCEPT !.title = Missing],
           [WellFormedStep("update_opportunity") EXCEPT !.title = Missing],
           [WellFormedStep("create_task") EXCEPT !.description = Missing,
                                                  !.title = "title_nodesc"],
           [WellFormedStep("create_task") EXCEPT !.salesforce_action = Missing,
                                                  !.title = "title_noaction"] }

\* Plans: sequences of at most MaxSteps step records.
RECURSIVE SeqsUpTo(_, _)
SeqsUpTo(S, n) ==
    IF n = 0 THEN { <<>> }
    ELSE LET shorter == SeqsUpTo(S, n - 1)
         IN  shorter \cup { Append(s, x) : s \in { t \in shorter : Len(t) = n - 1 }, x \in S }

\* The keys the try block reads before (or without) calling the CRM, in the
\* order Python evaluates them; reading a missing key raises KeyError.
KeysRead(step) ==
    IF step.salesforce_action = Missing THEN <<"salesforce_action">>
    ELSE IF step.salesforce_action = "create_task"
         THEN <<"salesforce_action", "title", "description", "due_date">>
    ELSE IF step.salesforce_action = "update_opportunity"
         THEN <<"salesforce_action", "title">>
    ELSE IF step.salesforce_action = "create_case"
         THEN <<"salesforce_action", "title", "description">>
    ELSE <<"salesforce_action">>

KeyErrorInTry(step) == \E k \in 1..Len(KeysRead(step)) : step[KeysRead(step)[k]] = Missing

\* Does the branch taken for this step call the CRM (create_task / create_case)?
CallsCRM(step) == step.salesforce_action \in {"create_task", "create_case"}

\* A try block whose rejected write leaves its record behind (mutant of
\* TryBlock).
TryBlockRecordKeptOnError(step, crm_ok) ==
    IF KeyErrorInTry(step)
    THEN [raised |-> TRUE, entries |-> <<>>, created |-> <<>>]
    ELSE IF CallsCRM(step)
    THEN [raised |-> ~crm_ok,
          entries |-> IF crm_ok THEN << [step |-> step.title, status |-> "success"] >> ELSE <<>>,
          created |-> << [kind |-> step.salesforce_action, subject |-> step.title] >>]
    ELSE IF step.salesforce_action = "update_opportunity"
    THEN [raised |-> FALSE,
          entries |-> << [step |-> step.title, status |-> "pending"] >>,
          created |-> <<>>]
    ELSE [raised |-> FALSE, entries |-> <<>>, created |-> <<>>]

\* The try block of one loop iteration (src/main2.py:174-208).  crm_ok is the
\* CRM's answer to the write, if one is made.  The outcome is
\*   [raised |-> FALSE, entries |-> the entries appended, created |-> CRM records]
\*   [raised |-> TRUE,  ...] when an exception leaves the try block.
TryBlock(step, crm_ok) ==
    IF KeyErrorInTry(step)
    THEN [raised |-> TRUE, entries |-> <<>>, created |-> <<>>]
    ELSE IF CallsCRM(step)
    THEN IF crm_ok
         THEN [raised |-> FALSE,
               entries |-> << [step |-> step.title, status |-> "success"] >>,
               created |-> << [kind |-> step.salesforce_action, subject |-> step.title] >>]
         ELSE [raised |-> TRUE, entries |-> <<>>, created |-> <<>>]
    ELSE IF step.salesforce_action = "update_opportunity"
    THEN [raised |-> FALSE,
          entries |-> << [step |-> step.title, status |-> "pending"] >>,
          created |-> <<>>]
    ELSE [raised |-> FALSE, entries |-> <<>>, created |-> <<>>]

\* The except block (src/main2.py:210-215): it reads step['title'] itself, so
\* a step without a title raises KeyError out of the handler.
ExceptBlock(step) ==
    IF step.title = Missing
    THEN [raised |-> TRUE, entries |-> <<>>]
    ELSE [raised |-> FALSE, entries |-> << [step |-> step.title, status |-> "error"] >>]

ExInit ==
    /\ action_plan \in SeqsUpTo(StepRecords, MaxSteps)
    /\ results = <<>>
    /\ step_i = 0
    /\ ex_pc = "loop"
    /\ sf_records = <<>>
    /\ try_raised = <<>>
    /\ report = NoReport
    /\ RtIdle
    /\ CtxIdle
    /\ RecIdle
    /\ WfIdle
    /\ DbIdle
    /\ PaIdle
    /\ AgIdle
    /\ SaIdle
    /\ AnIdle
    /\ ClIdle
    /\ SeIdle
    /\ CoIdle
    /\ XrIdle
    /\ PmIdle

\* One iteration of `for step in action_plan['steps']`.
ExecuteStep(crm_ok) ==
    /\ ex_pc = "loop"
    /\ step_i < Len(action_plan)
    /\ LET step == action_plan[step_i + 1]
           t    == TryBlock(step, crm_ok)
           e    == ExceptBlock(step)
       IN  /\ step_i' = step_i + 1
           /\ sf_records' = sf_records \o t.created
           /\ try_raised' = Append(try_raised, t.raised)
           /\ IF ~t.raised
              THEN /\ results' = results \o t.entries
                   /\ ex_pc' = "loop"
              ELSE IF ~e.raised
              THEN /\ results' = results \o e.entries
                   /\ ex_pc' = "loop"
              ELSE /\ results' = results
                   /\ ex_pc' = "raised"
    /\ UNCHANGED <<action_plan, report>>
    /\ ExFrame

\* `return results` once the loop has consumed every step.
ExecuteReturn ==
    /\ ex_pc = "loop"
    /\ step_i = Len(action_plan)
    /\ ex_pc' = "returned"
    /\ UNCHANGED <<action_plan, results, step_i, sf_records, try_raised, report>>
    /\ ExFrame

\* create_execution_report(results, action_plan) (src/extra.py:48-59); the
\* timestamp is left out.  Reading the title of a first step that has none
\* raises KeyError.
CreateExecutionReport(rs, plan) ==
    IF plan # <<>> /\ plan[1].title = Missing
    THEN [kind |-> "raised", error |-> "KeyError"]
    ELSE [kind |-> "report",
          plan_summary |-> IF plan # <<>> THEN plan[1].title ELSE "No plan",
          total_steps |-> Len(plan),
          successful_steps |-> Len(SelectSeq(rs, LAMBDA r : r.status = "success")),
          failed_steps |-> Len(SelectSeq(rs, LAMBDA r : r.status = "error")),
          pending_steps |-> Len(SelectSeq(rs, LAMBDA r : r.status = "pending")),
          details |-> rs]

\* `if results: report = create_execution_report(results, plan)`
\* (src/extra.py:66-68), after execute_action_plan has returned.
CreateReport ==
    /\ ex_pc = "returned"
    /\ results # <<>>
    /\ report = NoReport
    /\ report' = CreateExecutionReport(results, action_plan)
    /\ UNCHANGED <<action_plan, results, step_i, ex_pc, sf_records, try_raised>>
    /\ ExFrame

ExNext ==
    \/ \E crm_ok \in BOOLEAN : ExecuteStep(crm_ok)
    \/ ExecuteReturn
    \/ CreateReport

SpecExecute == ExInit /\ [][ExNext]_vars

\* Number of entries of a result list with the given status label.
CountStatus(rs, label) == Cardinality({ i \in 1..Len(rs) : rs[i].status = label })

\* Number of consumed steps whose try block raised.
CountRaised == Cardinality({ i \in 1..Len(try_raised) : try_raised[i] })

\* C1 (as claimed): every step is attempted independently -- whatever is raised
\* while a step is processed, the call never stops before the last step, and
\* when it returns every step has been consumed and each step that raised has
\* yielded exactly one 'error' entry.
C1_EveryStepAttempted ==
    /\ ex_pc # "raised"
    /\ ex_pc = "returned" =>
          /\ step_i = Len(action_plan)
          /\ CountStatus(results, "error") = CountRaised

\* Every step of the plan is a well-formed step of an allowed action type.
PlanAsPrompted ==
    \A i \in 1..Len(action_plan) :
        action_plan[i] = WellFormedStep(action_plan[i].salesforce_action)
        /\ action_plan[i].salesforce_action \in AllowedActions

\* C2 (as claimed): for a plan whose steps use the allowed action types, the
\* call returns one entry per step, in plan order, each labelled success,
\* pending or error.
C2_OneEntryPerStep ==
    (ex_pc = "returned" /\ PlanAsPrompted) =>
        /\ Len(results) = Len(action_plan)
        /\ \A i \in 1..Len(results) :
              /\ results[i].step = action_plan[i].title
              /\ results[i].status \in {"success", "pending", "error"}


\* The entries of a result list that report 'success'.
IsSuccess(entry) == entry.status = "success"

\* C13: after execute_action_plan returns, the task and case records created
\* in the CRM are exactly those of the steps reported 'success', in order:
\* records of earlier steps stay when a later step fails (no rollback), and
\* no step reported 'error' or 'pending' has created a record.
C13_RecordsAreTheSuccesses ==
    ex_pc = "returned" =>
        LET successes == SelectSeq(results, IsSuccess)
        IN  /\ Len(sf_records) = Len(successes)
            /\ \A i \in 1..Len(sf_records) :
                   /\ sf_records[i].subject = successes[i].step
                   /\ sf_records[i].kind \in {"create_task", "create_case"}

\* C21 (as claimed): in a report built from a plan and the results of its
\* execution, successful_steps + failed_steps + pending_steps = total_steps,
\* and total_steps is the number of steps of the plan.
C21_CountsCoverEveryStep ==
    report.kind = "report" =>
        /\ report.total_steps = Len(action_plan)
        /\ report.successful_steps + report.failed_steps + report.pending_steps
               = report.total_steps

\* A plan returned with a created record followed by a step that failed.
C13_Witness ==
    /\ ex_pc = "returned"
    /\ Len(results) >= 2
    /\ results[1].status = "success"
    /\ results[2].status = "error"
    /\ Len(sf_records) = 1

(***************************************************************************)
(* The retry wrappers: @retry(stop=stop_after_attempt(3), wait=...)        *)
(* on robust_salesforce_query and on SalesforceClient.get_account          *)
(***************************************************************************)

\* stop_after_attempt(3) (src/extra.py:154, client.py:38).
StopAfterAttempt == 3

\* Values a successful query may return, and the ways a call may fail.
QueryValues == {"rows_a", "rows_b"}
FailureCauses == {"timeout", "malformed_query"}

\* What one sf_connection.query(query) call may do (src/extra.py:157).
QueryOutcomes ==
    [ok : {TRUE}, value : QueryValues] \cup [ok : {FALSE}, cause : FailureCauses]

\* Mutants of AfterAttempt: an off-by-one stop predicate, a wrapper that uses
\* up its attempts whatever the result, and one that gives up at once on a
\* permanent failure.
AfterAttemptOffByOne(n, ok, cause) ==
    IF ok THEN "returned"
    ELSE IF n > StopAfterAttempt THEN "raised"
    ELSE "calling"

AfterAttemptIgnoringResult(n, ok, cause) ==
    IF n >= StopAfterAttempt THEN (IF ok THEN "returned" ELSE "raised")
    ELSE "calling"

AfterAttemptPermanentNotRetried(n, ok, cause) ==
    IF ok THEN "returned"
    ELSE IF n >= StopAfterAttempt \/ cause \in {"not_found", "login_failed", "malformed_query"}
    THEN "raised"
    ELSE "calling"

\* tenacity after one invocation of the wrapped function.  The default retry
\* predicate retries on any exception, whatever its cause; the stop predicate
\* holds once attempt_number >= 3; reraise is off, so RetryError is raised.
AfterAttempt(n, ok, cause) ==
    IF ok THEN "returned"
    ELSE IF n >= StopAfterAttempt THEN "raised"
    ELSE "calling"

\* A retried call that resumes at the query that failed (mutant of
\* RestartPosition).
ResumePosition(pos) == pos

\* Where an invocation of get_account starts after pos of its queries
\* succeeded in the invocation before: tenacity calls the function again, so
\* at its first query.
RestartPosition(pos) == 0

\* The wrapper's bookkeeping after an invocation numbered attempt_number has
\* ended with the given outcome.
Finish(outcome) ==
    LET next == AfterAttempt(attempt_number, outcome.ok,
                             IF outcome.ok THEN None ELSE outcome.cause)
    IN  /\ call_log' = Append(call_log, outcome)
        /\ rt_pc' = next
        /\ rt_value' = IF next = "returned" THEN outcome.value ELSE rt_value
        /\ attempt_number' = IF next = "calling" THEN attempt_number + 1
                              ELSE attempt_number
        /\ ga_pos' = RestartPosition(ga_pos)

RtInit ==
    /\ rt_target \in {"robust_salesforce_query", "get_account"}
    /\ rt_pc = "calling"
    /\ attempt_number = 1
    /\ call_log = <<>>
    /\ rt_value = None
    /\ connection = FALSE
    /\ logins = 0
    /\ ga_pos = 0
    /\ queries_sent = [k \in {QueryOrder[i] : i \in 1..Len(QueryOrder)} |-> 0]
    /\ ExIdle
    /\ CtxIdle
    /\ RecIdle
    /\ WfIdle
    /\ DbIdle
    /\ PaIdle
    /\ AgIdle
    /\ SaIdle
    /\ AnIdle
    /\ ClIdle
    /\ SeIdle
    /\ CoIdle
    /\ XrIdle
    /\ PmIdle

\* One invocation of robust_salesforce_query's body: a single query.
RobustQueryAttempt(outcome) ==
    /\ rt_target = "robust_salesforce_query"
    /\ rt_pc = "calling"
    /\ Finish(outcome)
    /\ UNCHANGED <<rt_target, connection, logins, queries_sent>>
    /\ RtFrame

\* What the CRM may answer to one query of get_account: records, no record,
\* or an error.
FetchAnswers == {"records", "empty", "error"}

\* get_account: the next _fetch_* call of the running invocation
\* (client.py:44-50, 73-127).  self.connection logs in first when no
\* connection is cached (client.py:17-36); login_ok is the login's outcome.
GetAccountFetch(login_ok, answer) ==
    /\ rt_target = "get_account"
    /\ rt_pc = "calling"
    /\ ga_pos < Len(QueryOrder)
    /\ LET kind == QueryOrder[ga_pos + 1]
       IN  IF ~connection /\ ~login_ok
           THEN \* _connect raises SalesforceConnectionError; nothing is cached
                /\ logins' = logins + 1
                /\ Finish([ok |-> FALSE, cause |-> "login_failed"])
                /\ UNCHANGED <<connection, queries_sent>>
           ELSE /\ logins' = IF connection THEN logins ELSE logins + 1
                /\ connection' = TRUE
                /\ queries_sent' = [queries_sent EXCEPT ![kind] = @ + 1]
                /\ IF answer = "error"
                   THEN Finish([ok |-> FALSE, cause |-> "query_error", query |-> kind])
                   ELSE IF answer = "empty" /\ kind = "account"
                   THEN \* raise ValueError(f"Account {account_id} not found")
                        Finish([ok |-> FALSE, cause |-> "not_found", query |-> kind])
                   ELSE /\ ga_pos' = ga_pos + 1
                        /\ UNCHANGED <<rt_pc, attempt_number, call_log, rt_value>>
    /\ UNCHANGED rt_target
    /\ RtFrame

\* get_account: all five fetches done, the Account model is built and
\* returned (client.py:53-66); pydantic may reject the records.
GetAccountBuild(valid) ==
    /\ rt_target = "get_account"
    /\ rt_pc = "calling"
    /\ ga_pos = Len(QueryOrder)
    /\ IF valid
       THEN Finish([ok |-> TRUE, value |-> "Account"])
       ELSE Finish([ok |-> FALSE, cause |-> "validation"])
    /\ UNCHANGED <<rt_target, connection, logins, queries_sent>>
    /\ RtFrame

RtNext ==
    \/ \E outcome \in QueryOutcomes : RobustQueryAttempt(outcome)
    \/ \E login_ok \in BOOLEAN, answer \in FetchAnswers : GetAccountFetch(login_ok, answer)
    \/ \E valid \in BOOLEAN : GetAccountBuild(valid)

SpecRetry == RtInit /\ [][RtNext]_vars

AllFailed == \A i \in 1..Len(call_log) : ~call_log[i].ok

AllFailedWith(cause) ==
    \A i \in 1..Len(call_log) : ~call_log[i].ok /\ call_log[i].cause = cause

\* C3: on sustained failure the retry wrapper invokes the wrapped call exactly
\* three times and then raises; it never makes a fourth attempt and never
\* returns a value after three failures.
C3_ThreeAttemptsThenRaise ==
    /\ attempt_number <= 3
    /\ Len(call_log) <= 3
    /\ rt_pc = "raised" =>
          /\ attempt_number = 3
          /\ Len(call_log) = 3
          /\ AllFailed
          /\ rt_value = None
    /\ (Len(call_log) = 3 /\ AllFailed) => rt_pc = "raised"

C3_Witness ==
    /\ rt_target = "robust_salesforce_query"
    /\ rt_pc = "raised"
    /\ Len(call_log) = 3

\* C4: when the query wrapped by robust_salesforce_query fails k times
\* (k in 0..2) and then succeeds, the wrapper returns the result of attempt
\* k+1, raises nothing and makes no attempt after the first success.
C4_ReturnsFirstSuccess ==
    rt_target = "robust_salesforce_query" =>
        /\ \A i \in 1..(Len(call_log) - 1) : ~call_log[i].ok
        /\ rt_pc = "returned" =>
              /\ Len(call_log) \in 1..3
              /\ call_log[Len(call_log)].ok
              /\ rt_value = call_log[Len(call_log)].value
              /\ attempt_number = Len(call_log)
        /\ (call_log # <<>> /\ call_log[Len(call_log)].ok) => rt_pc = "returned"

C4_Witness ==
    /\ rt_target = "robust_salesforce_query"
    /\ rt_pc = "returned"
    /\ Len(call_log) = 3
    /\ ~call_log[1].ok /\ ~call_log[2].ok
    /\ rt_value = "rows_b"

\* C5: the retry policy on get_account does not differentiate causes: when
\* every invocation fails because the account is not found, the account query
\* is sent three times before the error reaches the caller, and when every
\* invocation fails because the login fails, the login is attempted three
\* times; whatever the causes, the caller sees the error only after three
\* invocations.
C5_PermanentFailuresRetried ==
    (rt_target = "get_account" /\ rt_pc = "raised") =>
        /\ Len(call_log) = 3
        /\ AllFailedWith("not_found") => queries_sent["account"] = 3
        /\ AllFailedWith("login_failed") => (logins = 3 /\ queries_sent["account"] = 0)

C5_Witness ==
    /\ rt_target = "get_account"
    /\ rt_pc = "raised"
    /\ AllFailedWith("not_found")
    /\ queries_sent["account"] = 3


\* Number of finished invocations in which the query of the given kind raised.
FailuresOf(kind) ==
    Cardinality({ i \in 1..Len(call_log) :
                    /\ ~call_log[i].ok
                    /\ "query" \in DOMAIN call_log[i]
                    /\ call_log[i].query = kind })

\* Number of finished invocations that ended at the login.
LoginFailures ==
    Cardinality({ i \in 1..Len(call_log) : ~call_log[i].ok /\ call_log[i].cause = "login_failed" })

\* C18 (as claimed): when a query inside get_account raises, the retry
\* re-issues that same query: queries that had succeeded in the failed
\* attempt are not sent again, and no query is sent more than three times.
C18_OnlyFailedQueryReissued ==
    rt_target = "get_account" =>
        \A p \in 1..Len(QueryOrder) :
            /\ queries_sent[QueryOrder[p]] <= StopAfterAttempt
            /\ queries_sent[QueryOrder[p]] <= FailuresOf(QueryOrder[p]) + 1

\* C18 (amended): when a query inside get_account raises, the retry calls
\* get_account again from its first query: every invocation that logs in
\* sends the account query again and then the other queries in order, those
\* that had already succeeded included, up to the one that raises; there are
\* at most three invocations, so no query is sent more than three times.
C18_WholeCallReissued ==
    rt_target = "get_account" =>
        /\ attempt_number <= StopAfterAttempt
        /\ \A p \in 1..Len(QueryOrder) : queries_sent[QueryOrder[p]] <= attempt_number
        /\ \A p \in 2..Len(QueryOrder) :
               queries_sent[QueryOrder[p]] <= queries_sent[QueryOrder[p - 1]]
        /\ queries_sent[QueryOrder[1]] =
               Len(call_log) - LoginFailures
               + (IF rt_pc = "calling" /\ ga_pos >= 1 THEN 1 ELSE 0)

\* The contacts query raised in the first invocation, and the account
\* query, which had succeeded, has been sent a second time.
C18_Witness ==
    /\ rt_target = "get_account"
    /\ Len(call_log) >= 1
    /\ call_log[1] = [ok |-> FALSE, cause |-> "query_error", query |-> "contacts"]
    /\ queries_sent["account"] = 2
    /\ FailuresOf("account") = 0

(***************************************************************************)
(* Context formatting (fetch_salesforce_data, get_account_context,         *)
(* Account.open_opportunities_count) and analyze_account_health            *)
(***************************************************************************)

\* Bounds on the CRM response.
MaxOpps == 2
MaxCases == 7

\* A numeric field of a CRM record: null, or a number.
Null == <<>>
Number(n) == <<n>>
ValueOf(field) == field[1]

\* Opportunity records: the closed flag and the amount (null for an
\* opportunity without one).
Amounts == {Null, Number(0), Number(500)}
OppRecords == [IsClosed : BOOLEAN, Amount : Amounts]

\* The account record: AnnualRevenue absent, null, or a number.
AccountRecords ==
    { [Name |-> "Acme"] }
    \cup { [Name |-> "Acme", AnnualRevenue |-> v] : v \in {Null, Number(0), Number(1000)} }

\* Number of contact records returned.
ContactCounts == {0, 6}

\* n copies of x.
Repeat(x, n) == [i \in 1..n |-> x]

\* Case lists: some open cases followed by some closed ones.
CaseLists ==
    { Repeat([Status |-> "New"], a) \o Repeat([Status |-> "Closed"], b) :
        a \in 0..MaxCases, b \in 0..1 }

CrmResponses ==
    [account : AccountRecords, contacts : ContactCounts,
     opportunities : SeqsUpTo(OppRecords, MaxOpps), cases : CaseLists]

\* The closed flag read the wrong way round (mutant of IsOpen).
IsOpenInverted(o) == o.IsClosed

\* not o.get('IsClosed')
IsOpen(o) == ~o.IsClosed

\* [o for o in opportunities if not o.get('IsClosed')]
OpenOpportunities(opps) == SelectSeq(opps, IsOpen)

\* [c for c in cases if c.get('Status') != 'Closed']
IsOpenCase(c) == c.Status # "Closed"
OpenCases(cases) == SelectSeq(cases, IsOpenCase)

\* sum(o.get('Amount', 0) for o in ...): Number(total), or Null when a null
\* amount makes the addition raise TypeError.
RECURSIVE SumAmounts(_)
SumAmounts(opps) ==
    IF opps = <<>> THEN Number(0)
    ELSE LET rest == SumAmounts(Tail(opps))
         IN  IF Head(opps).Amount = Null \/ rest = Null THEN Null
             ELSE Number(ValueOf(Head(opps).Amount) + ValueOf(rest))

\* fetch_salesforce_data (langgraph.py:36-58): the records and the summary.
FetchSalesforceData(r) ==
    LET total == SumAmounts(OpenOpportunities(r.opportunities))
    IN  IF total = Null THEN Raised("TypeError")
        ELSE [kind |-> "account_data",
              account |-> r.account,
              opportunities |-> r.opportunities,
              cases |-> r.cases,
              summary |-> [total_contacts |-> r.contacts,
                           open_opportunities |-> Len(OpenOpportunities(r.opportunities)),
                           total_opportunity_value |-> ValueOf(total),
                           open_cases |-> Len(OpenCases(r.cases))]]

\* account.get('AnnualRevenue', 0)
RevenueOrDefault(account) ==
    IF "AnnualRevenue" \in DOMAIN account THEN account.AnnualRevenue ELSE Number(0)

\* The comparison with <= for < (mutant of LowPipeline).
LowPipelineNonStrict(total, revenue) == 10 * total <= revenue

\* total_opportunity_value < AnnualRevenue * 0.1, on the integers the model
\* draws (for which the float product is exact).
LowPipeline(total, revenue) == 10 * total < revenue

\* The penalty for no open opportunity (langgraph.py:72-74).
NoOpenOppsPenalty == 2
\* The penalty for a low pipeline (langgraph.py:76-78).
LowPipelinePenalty == 1
\* The penalty for more than five open cases (langgraph.py:81-83).
OpenCasesPenalty == 2
\* The baseline score (langgraph.py:67).
BaselineScore == 10

Max(a, b) == IF a >= b THEN a ELSE b

\* The open-cases penalty added instead of subtracted (mutant of RawHealthScore).
RawHealthScoreSignSlip(account_data) ==
    LET summary == account_data.summary
        revenue == ValueOf(RevenueOrDefault(account_data.account))
    IN  BaselineScore
        - (IF summary.open_opportunities = 0 THEN NoOpenOppsPenalty ELSE 0)
        - (IF LowPipeline(summary.total_opportunity_value, revenue)
           THEN LowPipelinePenalty ELSE 0)
        + (IF summary.open_cases > 5 THEN OpenCasesPenalty ELSE 0)

\* The score before the final max(1, .) (langgraph.py:67-83).
RawHealthScore(account_data) ==
    LET summary == account_data.summary
        revenue == ValueOf(RevenueOrDefault(account_data.account))
    IN  BaselineScore
        - (IF summary.open_opportunities = 0 THEN NoOpenOppsPenalty ELSE 0)
        - (IF LowPipeline(summary.total_opportunity_value, revenue)
           THEN LowPipelinePenalty ELSE 0)
        - (IF summary.open_cases > 5 THEN OpenCasesPenalty ELSE 0)

\* analyze_account_health (langgraph.py:60-94).
AnalyzeAccountHealth(account_data) ==
    IF RevenueOrDefault(account_data.account) = Null
    THEN Raised("TypeError")       \* None * 0.1
    ELSE [kind |-> "analysis",
          health_score |-> Max(1, RawHealthScore(account_data)),
          insights |-> IF account_data.summary.total_contacts > 5 THEN 1 ELSE 0,
          risks |-> BaselineScore - RawHealthScore(account_data),
          summary |-> account_data.summary]

\* get_account_context (autogen.py:39-64): the figures of the text block.
GetAccountContext(r) ==
    LET total == SumAmounts(OpenOpportunities(r.opportunities))
    IN  IF RevenueOrDefault(r.account) = Null \/ total = Null
        THEN Raised("TypeError")   \* format(None, ',.0f') / 0 + None
        ELSE [kind |-> "context",
              annual_revenue |-> ValueOf(RevenueOrDefault(r.account)),
              opportunities_total |-> Len(r.opportunities),
              opportunities_open |-> Len(OpenOpportunities(r.opportunities)),
              pipeline_value |-> ValueOf(total),
              cases_total |-> Len(r.cases),
              cases_open |-> Len(OpenCases(r.cases))]

\* _parse_opportunity (client.py:140-151): IsClosed becomes is_closed.
ParseOpportunity(o) == [is_closed |-> o.IsClosed, amount |-> o.Amount]

\* not o.is_closed
ModelIsOpen(o) == ~o.is_closed

\* Account(...) with its computed property open_opportunities_count
\* (client.py:53-66, account.py:61-64).
AccountModel(r) ==
    LET opportunities == [i \in 1..Len(r.opportunities) |-> ParseOpportunity(r.opportunities[i])]
    IN  [kind |-> "Account",
         annual_revenue |-> RevenueOrDefault(r.account),
         opportunities |-> opportunities,
         open_opportunities_count |-> Len(SelectSeq(opportunities, ModelIsOpen))]

CtxInit ==
    /\ crm \in CrmResponses
    /\ ctx_fw = None
    /\ ctx_out = NoOutput
    /\ analysis = NoOutput
    /\ ExIdle
    /\ RtIdle
    /\ RecIdle
    /\ WfIdle
    /\ DbIdle
    /\ PaIdle
    /\ AgIdle
    /\ SaIdle
    /\ AnIdle
    /\ ClIdle
    /\ SeIdle
    /\ CoIdle
    /\ XrIdle
    /\ PmIdle

\* langgraph: fetch_salesforce_data on the CRM's answer.
LangGraphFetch ==
    /\ ctx_fw = None
    /\ ctx_fw' = "langgraph"
    /\ ctx_out' = FetchSalesforceData(crm)
    /\ UNCHANGED <<crm, analysis>>
    /\ CtxFrame

\* langgraph: analyze_account_health on the fetched account_data.
LangGraphAnalyze ==
    /\ ctx_fw = "langgraph"
    /\ ctx_out.kind = "account_data"
    /\ analysis = NoOutput
    /\ analysis' = AnalyzeAccountHealth(ctx_out)
    /\ UNCHANGED <<crm, ctx_fw, ctx_out>>
    /\ CtxFrame

\* autogen: get_account_context on the CRM's answer.
AutoGenContext ==
    /\ ctx_fw = None
    /\ ctx_fw' = "autogen"
    /\ ctx_out' = GetAccountContext(crm)
    /\ UNCHANGED <<crm, analysis>>
    /\ CtxFrame

\* crewai: the Account model built by get_account from the CRM's answer.
CrewAIAccount ==
    /\ ctx_fw = None
    /\ ctx_fw' = "crewai"
    /\ ctx_out' = AccountModel(crm)
    /\ UNCHANGED <<crm, analysis>>
    /\ CtxFrame

CtxNext ==
    \/ LangGraphFetch
    \/ LangGraphAnalyze
    \/ AutoGenContext
    \/ CrewAIAccount

SpecContext == CtxInit /\ [][CtxNext]_vars

\* C6: whenever analyze_account_health returns, its health score lies in
\* [1,10]; it returns for every numeric input (it raises only on a null
\* annual revenue).
C6_HealthScoreInRange ==
    /\ analysis.kind = "analysis" => analysis.health_score \in 1..10
    /\ analysis.kind = "raised" => RevenueOrDefault(crm.account) = Null

C6_Witness ==
    /\ analysis.kind = "analysis"
    /\ analysis.health_score = 5
    /\ analysis.summary.open_opportunities = 0
    /\ analysis.summary.open_cases > 5

\* The inputs C7 is about: no open opportunity, more than five open cases.
NoOppsManyCases(summary) ==
    summary.open_opportunities = 0 /\ summary.open_cases > 5

\* The health score analyze_account_health gives for a CRM response, or 0
\* when the fetch or the analysis raises.
ScoreFor(r) ==
    LET data == FetchSalesforceData(r)
    IN  IF data.kind # "account_data" THEN 0
        ELSE LET a == AnalyzeAccountHealth(data)
             IN  IF a.kind = "analysis" THEN a.health_score ELSE 0

\* C7 (as claimed): with zero open opportunities and more than five open
\* cases the score is the same for all inputs, whatever the annual revenue and
\* the contact count.
C7_SameScoreWhateverRevenue ==
    (analysis.kind = "analysis" /\ NoOppsManyCases(analysis.summary)) =>
        \A r \in CrmResponses :
            (r.opportunities = crm.opportunities /\ r.cases = crm.cases /\ ScoreFor(r) # 0)
                => ScoreFor(r) = analysis.health_score

\* C7 (amended): with zero open opportunities and more than five open cases
\* the score is 6 (10 - 2 - 2) when the annual revenue is absent or not
\* positive, and 5 when it is positive (the open pipeline value is then 0, so
\* the low-pipeline penalty applies too); the contact count has no effect.
C7_ScoreByRevenueSign ==
    (analysis.kind = "analysis" /\ NoOppsManyCases(analysis.summary)) =>
        analysis.health_score =
            IF ValueOf(RevenueOrDefault(crm.account)) > 0 THEN 5 ELSE 6

C7_Witness ==
    /\ analysis.kind = "analysis"
    /\ NoOppsManyCases(analysis.summary)
    /\ ValueOf(RevenueOrDefault(crm.account)) > 0
    /\ crm.contacts > 5
    /\ analysis.health_score = 5

\* The number of opportunity records the CRM returned whose closed flag is
\* false.
NotClosedCount == Cardinality({ i \in 1..Len(crm.opportunities) : crm.opportunities[i].IsClosed = FALSE })

\* C8: the open-opportunity count each context-formatting step produces
\* (summary.open_opportunities, the 'Open' line of get_account_context,
\* Account.open_opportunities_count) equals the number of opportunity
\* records whose closed flag is false.
C8_OpenCountIsNotClosedCount ==
    /\ ctx_out.kind = "account_data" => ctx_out.summary.open_opportunities = NotClosedCount
    /\ ctx_out.kind = "context" => ctx_out.opportunities_open = NotClosedCount
    /\ ctx_out.kind = "Account" => ctx_out.open_opportunities_count = NotClosedCount

C8_Witness ==
    /\ ctx_out.kind = "account_data"
    /\ Len(crm.opportunities) = 2
    /\ ctx_out.summary.open_opportunities = 1

(***************************************************************************)
(* NextBestActionRecommendation: .json() and parsing the text back         *)
(* (pydantic: json.dumps with ensure_ascii, json.loads, field validation)  *)
(***************************************************************************)

\* Longest title drawn.
MaxStrLen == 2

\* Characters that JSON treats specially, and one non-ASCII character.
Q == "\""
BS == "\\"
NL == "\n"
E9 == "e-acute"

\* Characters a title is drawn from.
TitleChars == {"a", Q, BS, NL, E9}

\* The field names of the model, in declaration order (crewai.py:33-38).
K_title == <<"t", "i", "t", "l", "e">>
K_description == <<"d", "e", "s", "c", "r", "i", "p", "t", "i", "o", "n">>
K_priority == <<"p", "r", "i", "o", "r", "i", "t", "y">>
K_rationale == <<"r", "a", "t", "i", "o", "n", "a", "l", "e">>
K_expected_impact == <<"e", "x", "p", "e", "c", "t", "e", "d", "_", "i", "m", "p", "a", "c", "t">>
K_required_resources == <<"r", "e", "q", "u", "i", "r", "e", "d", "_", "r", "e", "s", "o", "u", "r", "c", "e", "s">>

\* Field values drawn for the fields other than the title.
Priorities == { <<"H", "i", "g", "h">>, <<"L", "o", "w">>, <<"a", ":", "b", ",", " ", "c">> }
Rationales == { <<"o", "k">>, <<Q, ",", " ", Q, "t", "i", "t", "l", "e", Q, ":", " ", Q, "z">>, <<"x", BS, Q, "y", NL, E9, "}">> }
ResourceLists == { <<>>, << <<"S", "a", "l", "e", "s", " ", "r", "e", "p">>, <<"a", Q, "]">> >> }

Recommendations ==
    [kind : {"Recommendation"},
     title : SeqsUpTo(TitleChars, MaxStrLen),
     description : { <<"L", "a", "u", "n", "c", "h">> },
     priority : Priorities,
     rationale : Rationales,
     expected_impact : { <<"$", "1", "0", "0", "k">> },
     required_resources : ResourceLists]

RECURSIVE Flatten(_)
Flatten(ss) == IF ss = <<>> THEN <<>> ELSE Head(ss) \o Flatten(Tail(ss))

\* An encoder that leaves the quote character alone (mutant of EncodeChar).
EncodeCharQuoteUnescaped(c) ==
    IF c = BS THEN <<BS, BS>>
    ELSE IF c = NL THEN <<BS, "n">>
    ELSE IF c = E9 THEN <<BS, "u", "0", "0", "e", "9">>
    ELSE <<c>>

\* json.dumps of one character of a string (ensure_ascii is on).
EncodeChar(c) ==
    IF c = Q THEN <<BS, Q>>
    ELSE IF c = BS THEN <<BS, BS>>
    ELSE IF c = NL THEN <<BS, "n">>
    ELSE IF c = E9 THEN <<BS, "u", "0", "0", "e", "9">>
    ELSE <<c>>

EncodeString(str) ==
    <<Q>> \o Flatten([i \in 1..Len(str) |-> EncodeChar(str[i])]) \o <<Q>>

\* json.dumps of a list of strings: items separated by ", ".
EncodeList(list) ==
    <<"[">>
    \o Flatten([i \in 1..Len(list) |->
                  (IF i > 1 THEN <<",", " ">> ELSE <<>>) \o EncodeString(list[i])])
    \o <<"]">>

\* "key": value
Member(key, value) == EncodeString(key) \o <<":", " ">> \o value

\* recommendation.json() (crewai.py:335): the fields in declaration order.
ToJson(rec) ==
    <<"{">>
    \o Member(K_title, EncodeString(rec.title)) \o <<",", " ">>
    \o Member(K_description, EncodeString(rec.description)) \o <<",", " ">>
    \o Member(K_priority, EncodeString(rec.priority)) \o <<",", " ">>
    \o Member(K_rationale, EncodeString(rec.rationale)) \o <<",", " ">>
    \o Member(K_expected_impact, EncodeString(rec.expected_impact)) \o <<",", " ">>
    \o Member(K_required_resources, EncodeList(rec.required_resources))
    \o <<"}">>

\* The parser: every step yields [ok |-> FALSE] or
\* [ok |-> TRUE, val |-> the value read, rest |-> the text after it].
Fail == [ok |-> FALSE]
Read(val, rest) == [ok |-> TRUE, val |-> val, rest |-> rest]

\* F applied to the value of v, with v evaluated once.
Bind(v, F(_)) == CHOOSE y \in { F(x) : x \in {v} } : TRUE

Drop(t, n) == SubSeq(t, n + 1, Len(t))

RECURSIVE SkipWsFrom(_)
SkipWsFrom(t) == IF t # <<>> /\ Head(t) = " " THEN SkipWsFrom(Tail(t)) ELSE t
SkipWs(text) == Bind(text, SkipWsFrom)

\* The number of backslashes that immediately precede position i of t.
BackslashRun(t, i) ==
    CHOOSE r \in 0..(i - 1) :
        /\ r = i - 1 \/ t[i - 1 - r] # BS
        /\ \A q \in 0..(r - 1) : t[i - 1 - q] = BS

\* Position i of t starts an escape sequence: a backslash that is not itself
\* escaped.
EscapeStart(t, i) == t[i] = BS /\ BackslashRun(t, i) % 2 = 0

\* Position i of t holds the quote that closes the string: one not escaped.
Closes(t, i) == t[i] = Q /\ BackslashRun(t, i) % 2 = 0

\* What position j of a string body contributes to the decoded string: a
\* character, nothing ("skip": the rest of an escape sequence), or an error
\* ("bad": an unknown escape or a raw control character).
Decoded(body, j) ==
    IF body[j] = BS
    THEN IF ~EscapeStart(body, j) THEN "skip"
         ELSE IF j = Len(body) THEN "bad"
         ELSE IF body[j + 1] = Q THEN Q
         ELSE IF body[j + 1] = BS THEN BS
         ELSE IF body[j + 1] = "n" THEN NL
         ELSE IF body[j + 1] = "u" /\ j + 5 <= Len(body)
                 /\ SubSeq(body, j + 2, j + 5) = <<"0", "0", "e", "9">> THEN E9
         ELSE "bad"
    ELSE IF j >= 2 /\ EscapeStart(body, j - 1) THEN "skip"
    ELSE IF \E k \in 2..5 : j - k >= 1 /\ EscapeStart(body, j - k) /\ body[j - k + 1] = "u"
         THEN "skip"
    ELSE IF body[j] = NL THEN "bad"
    ELSE body[j]

NotSkipped(c) == c # "skip"

\* The string whose body ends before position close of t.
StringUpTo(t, close) ==
    Bind([j \in 1..(close - 1) |-> Decoded(SubSeq(t, 1, close - 1), j)],
         LAMBDA marks : IF \E j \in 1..Len(marks) : marks[j] = "bad" THEN Fail
                        ELSE Read(SelectSeq(marks, NotSkipped), Drop(t, close)))

\* The body of a JSON string, after its opening quote, up to the first
\* quote that is not escaped.
ScanFrom(t) ==
    Bind({ i \in 1..Len(t) : Closes(t, i) },
         LAMBDA ends : IF ends = {} THEN Fail
                       ELSE StringUpTo(t, CHOOSE i \in ends : \A k \in ends : i <= k))
ScanString(text) == Bind(text, ScanFrom)

ParseStringFrom(t) == IF t # <<>> /\ Head(t) = Q THEN ScanString(Tail(t)) ELSE Fail
ParseString(text) == Bind(text, ParseStringFrom)

\* The value read, tagged with its JSON type.
Tagged(type, read) ==
    IF read.ok THEN Read([type |-> type, v |-> read.val], read.rest) ELSE Fail

Digits == {"0", "1", "2", "3", "4", "5", "6", "7", "8", "9"}
DigitValue(c) == CHOOSE d \in 0..9 : ToString(d) = c

\* The number of digits t starts with.
DigitRun(t) ==
    CHOOSE r \in 0..Len(t) :
        /\ r = Len(t) \/ t[r + 1] \notin Digits
        /\ \A q \in 1..r : t[q] \in Digits

RECURSIVE IntOf(_)
IntOf(ds) == IF ds = <<>> THEN 0 ELSE 10 * IntOf(SubSeq(ds, 1, Len(ds) - 1)) + DigitValue(ds[Len(ds)])

\* A non-negative integer literal: 0, or digits that do not start with 0.
ParseNumberFrom(t) ==
    IF Head(t) = "0" THEN Read(0, Tail(t))
    ELSE Bind(DigitRun(t), LAMBDA r : Read(IntOf(SubSeq(t, 1, r)), Drop(t, r)))

RECURSIVE ParseValue(_)

\* What follows an array item: ',' and more items, or ']'.
RECURSIVE ParseElements(_, _)
AfterElement(acc, item) ==
    IF ~item.ok THEN Fail
    ELSE Bind(SkipWs(item.rest),
              LAMBDA r : IF r = <<>> THEN Fail
                         ELSE IF Head(r) = "," THEN ParseElements(Tail(r), Append(acc, item.val))
                         ELSE IF Head(r) = "]" THEN Read(Append(acc, item.val), Tail(r))
                         ELSE Fail)

\* The items of an array after '[' or ','.
ParseElements(text, items) ==
    Bind(<<text, items>>,
         LAMBDA p : Bind(ParseValue(SkipWs(p[1])), LAMBDA item : AfterElement(p[2], item)))

ParseArray(text) ==
    Bind(SkipWs(Tail(text)),
         LAMBDA r : IF r # <<>> /\ Head(r) = "]" THEN Read(<<>>, Tail(r))
                    ELSE ParseElements(r, <<>>))

\* What follows a member: ',' and more members, or '}'.
RECURSIVE ParseMembers(_, _)
AfterValue(acc, key, value) ==
    IF ~value.ok THEN Fail
    ELSE Bind(<<SkipWs(value.rest), Append(acc, [key |-> key.val, value |-> value.val])>>,
              LAMBDA q : IF q[1] = <<>> THEN Fail
                         ELSE IF Head(q[1]) = "," THEN ParseMembers(Tail(q[1]), q[2])
                         ELSE IF Head(q[1]) = "}" THEN Read(q[2], Tail(q[1]))
                         ELSE Fail)

\* What follows a member's key: ':' and the value.
AfterKey(acc, key) ==
    IF ~key.ok THEN Fail
    ELSE Bind(SkipWs(key.rest),
              LAMBDA r : IF r = <<>> \/ Head(r) # ":" THEN Fail
                         ELSE Bind(ParseValue(SkipWs(Tail(r))),
                                   LAMBDA value : AfterValue(acc, key, value)))

\* The members of an object after '{' or ','.
ParseMembers(text, members) ==
    Bind(<<text, members>>,
         LAMBDA p : Bind(ParseString(SkipWs(p[1])), LAMBDA key : AfterKey(p[2], key)))

ParseObject(text) ==
    Bind(SkipWs(Tail(text)),
         LAMBDA r : IF r # <<>> /\ Head(r) = "}" THEN Read(<<>>, Tail(r))
                    ELSE ParseMembers(r, <<>>))

\* A value: a string, a number, an array of values or an object.
ParseValueFrom(t) ==
    IF t = <<>> THEN Fail
    ELSE IF Head(t) = Q THEN Bind(ParseString(t), LAMBDA str : Tagged("str", str))
    ELSE IF Head(t) = "[" THEN Bind(ParseArray(t), LAMBDA arr : Tagged("list", arr))
    ELSE IF Head(t) = "{" THEN Bind(ParseObject(t), LAMBDA obj : Tagged("dict", obj))
    ELSE IF Head(t) \in Digits THEN Bind(ParseNumberFrom(t), LAMBDA num : Tagged("int", num))
    ELSE Fail
ParseValue(text) == Bind(text, ParseValueFrom)

\* The value read, if nothing but white space follows it.
WholeText(read) == IF read.ok /\ SkipWs(read.rest) = <<>> THEN read ELSE Fail

\* json.loads: the whole text is one JSON value.
JsonLoads(text) == Bind(ParseValue(SkipWs(text)), WholeText)

\* dict semantics: the last member with the key wins.
HasKey(members, key) == \E i \in 1..Len(members) : members[i].key = key
Lookup(members, key) ==
    LET i == CHOOSE j \in 1..Len(members) :
                 /\ members[j].key = key
                 /\ \A k \in (j + 1)..Len(members) : members[k].key # key
    IN  members[i].value

IsField(members, key, type) == HasKey(members, key) /\ Lookup(members, key).type = type

\* List[str]: every item of the list is a string.
IsStrList(members, key) ==
    /\ IsField(members, key, "list")
    /\ \A i \in 1..Len(Lookup(members, key).v) : Lookup(members, key).v[i].type = "str"

\* The strings of a list of strings.
Strings(list) == [i \in 1..Len(list) |-> list[i].v]

\* NextBestActionRecommendation.parse_raw(text): json.loads, then the fields
\* validated against their declared types (crewai.py:32-38).
ParseRawFrom(read) ==
    IF ~read.ok \/ read.val.type # "dict" THEN Raised("ValidationError")
    ELSE IF ~(/\ IsField(read.val.v, K_title, "str")
              /\ IsField(read.val.v, K_description, "str")
              /\ IsField(read.val.v, K_priority, "str")
              /\ IsField(read.val.v, K_rationale, "str")
              /\ IsField(read.val.v, K_expected_impact, "str")
              /\ IsStrList(read.val.v, K_required_resources))
    THEN Raised("ValidationError")
    ELSE [kind |-> "Recommendation",
          title |-> Lookup(read.val.v, K_title).v,
          description |-> Lookup(read.val.v, K_description).v,
          priority |-> Lookup(read.val.v, K_priority).v,
          rationale |-> Lookup(read.val.v, K_rationale).v,
          expected_impact |-> Lookup(read.val.v, K_expected_impact).v,
          required_resources |-> Strings(Lookup(read.val.v, K_required_resources).v)]
ParseRaw(text) == Bind(JsonLoads(text), ParseRawFrom)

RecInit ==
    /\ recommendation \in Recommendations
    /\ json_text = <<>>
    /\ parsed = NoOutput
    /\ ExIdle
    /\ RtIdle
    /\ CtxIdle
    /\ WfIdle
    /\ DbIdle
    /\ PaIdle
    /\ AgIdle
    /\ SaIdle
    /\ AnIdle
    /\ ClIdle
    /\ SeIdle
    /\ CoIdle
    /\ XrIdle
    /\ PmIdle

\* selected_action.json()
Serialize ==
    /\ json_text = <<>>
    /\ json_text' = ToJson(recommendation)
    /\ UNCHANGED <<recommendation, parsed>>
    /\ RecFrame

\* NextBestActionRecommendation.parse_raw(json_text)
ParseBack ==
    /\ json_text # <<>>
    /\ parsed = NoOutput
    /\ parsed' = ParseRaw(json_text)
    /\ UNCHANGED <<recommendation, json_text>>
    /\ RecFrame

RecNext ==
    \/ Serialize
    \/ ParseBack

SpecRecommendation == RecInit /\ [][RecNext]_vars

\* C9: serializing a recommendation and parsing the result back yields a
\* recommendation whose title, priority and rationale are those of the
\* original.
C9_RoundTripPreservesFields ==
    parsed # NoOutput =>
        /\ parsed.kind = "Recommendation"
        /\ parsed.title = recommendation.title
        /\ parsed.priority = recommendation.priority
        /\ parsed.rationale = recommendation.rationale

C9_Witness ==
    /\ parsed # NoOutput
    /\ parsed.kind = "Recommendation"
    /\ recommendation.title = <<Q, BS>>
    /\ recommendation.rationale = <<Q, ",", " ", Q, "t", "i", "t", "l", "e", Q, ":", " ", Q, "z">>
    /\ parsed.title = <<Q, BS>>

(***************************************************************************)
(* The LangGraph workflow: SalesforceNBAWorkflow                           *)
(* (src/Frameworks/langgraph.py:113-328)                                   *)
(***************************************************************************)

\* The graph's terminal marker.
END == "END"

\* An empty dict ({}), the initial value of the dict-valued state keys.
EmptyDict == [kind |-> "empty"]

\* Salesforce(...) or sf.query(...) raises.
CrmFailure == Raised("SalesforceError")

\* What the CRM may answer in a run: the account's records, or a failure of
\* the login or of a query (no such account included).
WfCrmAnswers ==
    { r \in CrmResponses : Len(r.opportunities) <= 1 /\ Len(r.cases) <= 1 }
    \cup { CrmFailure }

\* initial_state (langgraph.py:354-365).
InitialState ==
    [account_data |-> EmptyDict,
     analysis |-> EmptyDict,
     recommendations |-> <<>>,
     selected_action |-> EmptyDict,
     action_plan |-> EmptyDict,
     execution_results |-> <<>>,
     messages |-> <<"Analyze account">>,
     next_step |-> "",
     error |-> ""]

\* route_after_fetch (langgraph.py:322-324).
RouteAfterFetch(st) == IF st.next_step = "analyze" THEN "analyze" ELSE "error"

\* route_after_plan (langgraph.py:326-328).
RouteAfterPlan(st) == IF st.next_step = "execute" THEN "execute" ELSE "end"

\* The nodes added to the graph (langgraph.py:130-135).
GraphNodes == {"fetch_data", "analyze", "recommend", "plan", "execute", "error_handler"}

\* The path maps of the two conditional edges (langgraph.py:141-160).
EdgesAfterFetch == [analyze |-> "analyze", error |-> "error_handler"]
EdgesAfterPlan == [execute |-> "execute", end |-> END]

\* The hard-coded list recommend_node stores (langgraph.py:224-239).
HardCodedRecommendations ==
    << [title |-> "Renewal Campaign", priority |-> "High"],
       [title |-> "Upsell Opportunity", priority |-> "Medium"] >>

\* The hard-coded steps plan_node stores (langgraph.py:267-282).
HardCodedSteps ==
    << [type |-> "task", subject |-> "Review account contract", due_date |-> "2024-01-15"],
       [type |-> "task", subject |-> "Schedule renewal meeting", due_date |-> "2024-01-20"] >>

WfInit ==
    /\ wf_crm \in WfCrmAnswers
    /\ node = "fetch_data"
    /\ trace = <<>>
    /\ state = InitialState
    /\ tasks_created = 0
    /\ ExIdle
    /\ RtIdle
    /\ CtxIdle
    /\ RecIdle
    /\ DbIdle
    /\ PaIdle
    /\ AgIdle
    /\ SaIdle
    /\ AnIdle
    /\ ClIdle
    /\ SeIdle
    /\ CoIdle
    /\ XrIdle
    /\ PmIdle

\* An exception leaves the node that is running: workflow.invoke raises and
\* no further node runs.
Abort(name) ==
    /\ node' = "aborted"
    /\ trace' = Append(trace, name)
    /\ UNCHANGED <<wf_crm, state>>

\* An except clause that routes to the error handler without recording the
\* error (mutant of FetchFailed).
FetchFailedErrorNotRecorded(st, error) == [st EXCEPT !.next_step = "error"]

\* except Exception as e: state["error"] = str(e); state["next_step"] = "error"
\* (langgraph.py:180-182)
FetchFailed(st, error) == [st EXCEPT !.error = error, !.next_step = "error"]

\* fetch_data_node (langgraph.py:167-184) and the conditional edge after it.
FetchDataNode ==
    /\ node = "fetch_data"
    /\ LET account_data == IF wf_crm = CrmFailure THEN wf_crm
                           ELSE FetchSalesforceData(wf_crm)
           after == IF account_data.kind = "raised"
                    THEN FetchFailed(state, account_data.error)
                    ELSE [state EXCEPT !.account_data = account_data,
                                       !.messages = Append(@, "Successfully fetched data"),
                                       !.next_step = "analyze"]
       IN  /\ state' = after
           /\ node' = EdgesAfterFetch[RouteAfterFetch(after)]
    /\ trace' = Append(trace, "fetch_data")
    /\ UNCHANGED <<wf_crm, tasks_created>>
    /\ WfFrame

\* analyze_node (langgraph.py:186-204), then the edge to recommend.
AnalyzeNode(llm_ok) ==
    /\ node = "analyze"
    /\ LET health == AnalyzeAccountHealth(state.account_data)
       IN  IF health.kind = "raised" \/ ~llm_ok
           THEN Abort("analyze")
           ELSE /\ state' = [state EXCEPT !.analysis = health,
                                          !.messages = Append(@, "Account analysis completed")]
                /\ node' = "recommend"
                /\ trace' = Append(trace, "analyze")
                /\ UNCHANGED wf_crm
    /\ UNCHANGED tasks_created
    /\ WfFrame

\* recommend_node (langgraph.py:206-244), then the edge to plan.
RecommendNode(llm_ok) ==
    /\ node = "recommend"
    /\ IF ~llm_ok
       THEN Abort("recommend")
       ELSE /\ state' = [state EXCEPT !.recommendations = HardCodedRecommendations,
                                      !.messages = Append(@, "Generated NBA recommendations")]
            /\ node' = "plan"
            /\ trace' = Append(trace, "recommend")
            /\ UNCHANGED wf_crm
    /\ UNCHANGED tasks_created
    /\ WfFrame

\* plan_node (langgraph.py:246-289) and the conditional edge after it.
PlanNode(llm_ok) ==
    /\ node = "plan"
    /\ IF state.recommendations = <<>>
       THEN \* selected_action is None: no LLM call
            LET after == [state EXCEPT !.next_step = "end"]
            IN  /\ state' = after
                /\ node' = EdgesAfterPlan[RouteAfterPlan(after)]
                /\ trace' = Append(trace, "plan")
                /\ UNCHANGED wf_crm
       ELSE IF ~llm_ok
       THEN Abort("plan")
       ELSE LET selected_action == state.recommendations[1]
                after == [state EXCEPT
                             !.action_plan = [selected_action |-> selected_action,
                                              steps |-> HardCodedSteps],
                             !.selected_action = selected_action,
                             !.next_step = "execute"]
            IN  /\ state' = after
                /\ node' = EdgesAfterPlan[RouteAfterPlan(after)]
                /\ trace' = Append(trace, "plan")
                /\ UNCHANGED wf_crm
    /\ UNCHANGED tasks_created
    /\ WfFrame

\* The steps execute_node sends to create_salesforce_task.
IsTask(step) == step.type = "task"

\* execute_node (langgraph.py:291-313), then the edge to END.  accepted is
\* the number of Task creates the CRM accepts before it rejects one
\* (create_salesforce_task, langgraph.py:96-110, raises on a failed login or
\* create; nothing catches it).
ExecuteNode(accepted) ==
    /\ node = "execute"
    /\ LET tasks == SelectSeq(state.action_plan.steps, IsTask)
       IN  /\ accepted \in 0..Len(tasks)
           /\ tasks_created' = tasks_created + accepted
           /\ IF accepted < Len(tasks)
              THEN Abort("execute")
              ELSE /\ state' = [state EXCEPT
                                   !.execution_results =
                                        [i \in 1..Len(tasks) |-> [success |-> TRUE, task_id |-> i]],
                                   !.messages = Append(@, "Successfully executed tasks")]
                   /\ node' = END
                   /\ trace' = Append(trace, "execute")
                   /\ UNCHANGED wf_crm
    /\ WfFrame

\* error_handler_node (langgraph.py:315-320), then the edge to END.
ErrorHandlerNode ==
    /\ node = "error_handler"
    /\ state' = [state EXCEPT !.messages = Append(@, "Error occurred: " \o state.error)]
    /\ node' = END
    /\ trace' = Append(trace, "error_handler")
    /\ UNCHANGED <<wf_crm, tasks_created>>
    /\ WfFrame

\* The number of Task creates one run may be allowed.
MaxTasks == Len(HardCodedSteps)

WfNext ==
    \/ FetchDataNode
    \/ \E llm_ok \in BOOLEAN : AnalyzeNode(llm_ok)
    \/ \E llm_ok \in BOOLEAN : RecommendNode(llm_ok)
    \/ \E llm_ok \in BOOLEAN : PlanNode(llm_ok)
    \/ \E accepted \in 0..MaxTasks : ExecuteNode(accepted)
    \/ ErrorHandlerNode

SpecWorkflow == WfInit /\ [][WfNext]_vars

\* The node sequences a run may have.
LinearRuns ==
    { <<"fetch_data", "analyze", "recommend", "plan", "execute">>,
      <<"fetch_data", "analyze", "recommend", "plan">>,
      <<"fetch_data", "error_handler">> }

\* No node occurs twice in the sequence.
NoNodeTwice(t) == \A i, j \in 1..Len(t) : t[i] = t[j] => i = j

\* The nodes that have run so far are the beginning of one of the linear
\* runs, whether or not the run gets to its end.
TraceIsLinear ==
    /\ NoNodeTwice(trace)
    /\ \E run \in LinearRuns : Len(trace) <= Len(run) /\ trace = SubSeq(run, 1, Len(trace))

\* execute runs only after plan_node selected a recommendation and set
\* next_step to 'execute'.
ExecuteOnlyIfPlanned ==
    (node = "execute" \/ (trace # <<>> /\ trace[Len(trace)] = "execute"))
        => /\ state.next_step = "execute"
           /\ state.selected_action = HardCodedRecommendations[1]

\* C10: every run of the workflow is strictly linear and terminates: the
\* nodes executed are fetch_data, analyze, recommend, plan, execute, or
\* fetch_data, analyze, recommend, plan, or fetch_data, error_handler; no
\* node runs twice; END is always reached (a run that has stopped has
\* stopped at END, with one of those sequences); execute runs only if
\* plan_node selected a recommendation and set next_step to 'execute'.
C10_LinearRunReachesEnd ==
    /\ TraceIsLinear
    /\ ExecuteOnlyIfPlanned
    /\ node \notin GraphNodes => (node = END /\ trace \in LinearRuns)


\* C17: in the execute node each task step of the plan is attempted
\* independently: a task creation that fails does not keep the following
\* steps from being attempted, and execution_results ends with one entry per
\* task step of the plan.
C17_EveryTaskStepAttempted ==
    (trace # <<>> /\ trace[Len(trace)] = "execute") =>
        /\ node = END
        /\ Len(state.execution_results) = Len(SelectSeq(state.action_plan.steps, IsTask))

(***************************************************************************)
(* The main2 dashboard: one Streamlit script run per button press          *)
(* (src/main2.py:10-20, 115-167, 219-377)                                  *)
(***************************************************************************)

\* The keys the prompts ask for (main2.py:137-141, 158-161).
K_health_score == <<"h", "e", "a", "l", "t", "h", "_", "s", "c", "o", "r", "e">>
K_insights == <<"i", "n", "s", "i", "g", "h", "t", "s">>
K_next_best_actions == <<"n", "e", "x", "t", "_", "b", "e", "s", "t", "_", "a", "c", "t", "i", "o", "n", "s">>
K_risks == <<"r", "i", "s", "k", "s">>
K_steps == <<"s", "t", "e", "p", "s">>
K_success_metrics == <<"s", "u", "c", "c", "e", "s", "s", "_", "m", "e", "t", "r", "i", "c", "s">>
K_timeline == <<"t", "i", "m", "e", "l", "i", "n", "e">>
K_type == <<"t", "y", "p", "e">>
K_due_date == <<"d", "u", "e", "_", "d", "a", "t", "e">>
K_salesforce_action == <<"s", "a", "l", "e", "s", "f", "o", "r", "c", "e", "_", "a", "c", "t", "i", "o", "n">>
K_answer == <<"a", "n", "s", "w", "e", "r">>

\* Text constructors for the LLM's answers.
Chars(n) == IF n = 0 THEN <<"0">> ELSE <<ToString(n)>>
JoinItems(items) ==
    Flatten([i \in 1..Len(items) |-> (IF i > 1 THEN <<",", " ">> ELSE <<>>) \o items[i]])
JsonObject(members) == <<"{">> \o JoinItems(members) \o <<"}">>
JsonArray(items) == <<"[">> \o JoinItems(items) \o <<"]">>

W_t == <<"t">>
W_d == <<"d">>
W_r == <<"r">>
W_High == <<"H", "i", "g", "h">>
W_date == <<"2", "0", "2", "4", "-", "0", "1", "-", "1", "5">>
W_create_task == <<"c", "r", "e", "a", "t", "e", "_", "t", "a", "s", "k">>
W_task == <<"t", "a", "s", "k">>

\* One action as the prompt asks for it (main2.py:140).
ActionText ==
    JsonObject(<< Member(K_title, EncodeString(W_t)),
                  Member(K_description, EncodeString(W_d)),
                  Member(K_priority, EncodeString(W_High)),
                  Member(K_rationale, EncodeString(W_r)) >>)

\* An answer with the four keys of the analysis prompt (main2.py:137-141).
NbaText(score) ==
    JsonObject(<< Member(K_health_score, Chars(score)),
                  Member(K_insights, JsonArray(<<EncodeString(W_t)>>)),
                  Member(K_next_best_actions, JsonArray(<<ActionText>>)),
                  Member(K_risks, JsonArray(<<>>)) >>)

\* One step as the prompt asks for it (main2.py:159).
StepText ==
    JsonObject(<< Member(K_type, EncodeString(W_task)),
                  Member(K_title, EncodeString(W_t)),
                  Member(K_description, EncodeString(W_d)),
                  Member(K_due_date, EncodeString(W_date)),
                  Member(K_salesforce_action, EncodeString(W_create_task)) >>)

\* An answer with the three keys of the plan prompt (main2.py:158-161).
PlanText ==
    JsonObject(<< Member(K_steps, JsonArray(<<StepText>>)),
                  Member(K_success_metrics, JsonArray(<<EncodeString(W_t)>>)),
                  Member(K_timeline, Chars(7)) >>)

\* Valid JSON without the keys asked for.
OtherJsonText == JsonObject(<< Member(K_answer, EncodeString(W_t)) >>)

\* The same answer wrapped in a Markdown code fence, and plain prose: not JSON.
BT == "backtick"
FencedText(text) == <<BT, BT, BT>> \o text \o <<BT, BT, BT>>
ProseText == <<"S", "u", "r", "e", "!">>

\* What model.generate_content may answer to the analysis prompt and to the
\* plan prompt (response.text).
NbaAnswers == { NbaText(7), OtherJsonText, JsonObject(<<>>), FencedText(NbaText(7)), ProseText }
PlanAnswers == { PlanText, OtherJsonText, JsonArray(<<>>), FencedText(PlanText), ProseText }

\* Python values: a parsed JSON value [type, v], None, or account data.
PyNone == [type |-> "NoneType"]

\* bool(x)
Truthy(x) ==
    IF x.type = "NoneType" THEN FALSE
    ELSE IF x.type = "int" THEN x.v # 0
    ELSE IF x.type \in {"dict", "list", "str"} THEN x.v # <<>>
    ELSE TRUE

\* x[key] does not raise.
HasItem(x, key) == x.type = "dict" /\ HasKey(x.v, key)

\* x[key]
Item(x, key) == Lookup(x.v, key)

\* A key st.session_state does not hold.
PyMissing == [type |-> "<missing>"]

\* The accounts of the CRM; an Id that is not among them selects no record.
CrmAccounts ==
    [i \in {"001A", "001B"} |->
        IF i = "001A" THEN [Name |-> "Acme", AnnualRevenue |-> Number(1000)]
        ELSE [Name |-> "Beta", AnnualRevenue |-> Null]]
AccountIds == {"001A", "001B", "001X"}

\* The opportunity records of each account (main2.py:54-61: the query has
\* no filter on IsClosed).
CrmOpportunities ==
    [i \in {"001A", "001B"} |->
        IF i = "001A"
        THEN << [IsClosed |-> TRUE, Amount |-> Number(500)],
                [IsClosed |-> FALSE, Amount |-> Number(500)] >>
        ELSE <<>>]

\* get_account_data (main2.py:31-83): the account's records, or the
\* exception of a failed query or of records[0] on an empty result.
GetAccountData(id, crm_ok) ==
    IF ~crm_ok THEN Raised("SalesforceError")
    ELSE IF id \notin DOMAIN CrmAccounts THEN Raised("IndexError")
    ELSE [kind |-> "returned",
          val |-> [type |-> "account_data", account_id |-> id,
                   account |-> CrmAccounts[id],
                   opportunities |-> CrmOpportunities[id]]]

\* What model.generate_content does: it raises, or it answers with a text.
LlmResponses(texts) == { [raises |-> TRUE] } \cup { [raises |-> FALSE, text |-> t] : t \in texts }

\* json.loads with the keys of the prompt required (mutant of LoadsResponse).
LoadsResponseWithSchema(response, keys) ==
    IF response.raises THEN Raised("APIError")
    ELSE Bind(JsonLoads(response.text),
              LAMBDA read : IF read.ok /\ \A k \in keys : HasItem(read.val, k)
                            THEN [kind |-> "returned", val |-> read.val]
                            ELSE Raised("JSONDecodeError"))

\* response = self.model.generate_content(prompt); return json.loads(response.text)
\* (main2.py:144-145, 166-167).  keys: the keys the prompt asked for.
LoadsResponse(response, keys) ==
    IF response.raises THEN Raised("APIError")
    ELSE Bind(JsonLoads(response.text),
              LAMBDA read : IF read.ok THEN [kind |-> "returned", val |-> read.val]
                            ELSE Raised("JSONDecodeError"))

NbaKeys == {K_health_score, K_insights, K_next_best_actions, K_risks}
PlanKeys == {K_steps, K_success_metrics, K_timeline}

\* GeminiAnalyzer.analyze_account_for_nba (main2.py:120-145).
AnalyzeAccountForNba(response) == LoadsResponse(response, NbaKeys)

\* GeminiAnalyzer.create_action_plan (main2.py:147-167).
CreateActionPlan(response) == LoadsResponse(response, PlanKeys)

\* The script's rendering, top to bottom: what is shown, and which buttons
\* are reached before an exception ends the run (main2.py:257-360).

\* if st.session_state.authenticated / if st.session_state.account_data
AccountShown(ss) == ss.authenticated /\ Truthy(ss.account_data)

\* main2.py:274-286: the metrics render; f"${None:,.0f}" raises TypeError.
AccountDisplayOk(ss) ==
    AccountShown(ss) /\ RevenueOrDefault(ss.account_data.account) # Null

\* st.metric("Open Opportunities", len(account_data['opportunities']))
\* (main2.py:286)
OpenOpportunitiesMetric(ss) == Len(ss.account_data.opportunities)

\* for x in value
Iterable(x) == x.type \in {"list", "dict", "str"}

\* main2.py:302-311: health score and insights render.
NbaHeaderOk(ss) ==
    /\ AccountDisplayOk(ss)
    /\ Truthy(ss.nba_recommendation)
    /\ HasItem(ss.nba_recommendation, K_health_score)
    /\ Item(ss.nba_recommendation, K_health_score).type = "int"
    /\ Item(ss.nba_recommendation, K_health_score).v <= 10
    /\ HasItem(ss.nba_recommendation, K_insights)
    /\ Iterable(Item(ss.nba_recommendation, K_insights))
    /\ HasItem(ss.nba_recommendation, K_next_best_actions)
    /\ Iterable(Item(ss.nba_recommendation, K_next_best_actions))

\* nba['next_best_actions'], for the header that rendered.
NextBestActions(ss) == Item(ss.nba_recommendation, K_next_best_actions)

\* main2.py:316-318: one action's expander renders.
ActionRenders(action) ==
    \A k \in {K_priority, K_title, K_description, K_rationale} : HasItem(action, k)

\* main2.py:319: the i-th "Select this action" button is reached.
SelectButton(ss, i) ==
    /\ NbaHeaderOk(ss)
    /\ NextBestActions(ss).type = "list"
    /\ i \in 1..Len(NextBestActions(ss).v)
    /\ \A j \in 1..i : ActionRenders(NextBestActions(ss).v[j])

\* The loop over the actions ends without an exception.
ActionsOk(ss) ==
    /\ NbaHeaderOk(ss)
    /\ IF NextBestActions(ss).type = "list"
       THEN \A j \in 1..Len(NextBestActions(ss).v) : ActionRenders(NextBestActions(ss).v[j])
       ELSE NextBestActions(ss).v = <<>>

\* The plan button shown whether or not an action was selected (mutant of
\* PlanButton).
PlanButtonWithoutSelection(ss) == ActionsOk(ss)

\* main2.py:324-326: "Generate Action Plan" is reached.
PlanButton(ss) == ActionsOk(ss) /\ ss.selected_action.type # "<missing>"

\* main2.py:343-347: one step of the plan renders.
StepRenders(step) ==
    \A k \in {K_title, K_description, K_due_date, K_salesforce_action} : HasItem(step, k)

\* main2.py:339-360: the plan renders and "Execute Action Plan" is reached.
ExecuteButton(ss) ==
    /\ ActionsOk(ss)
    /\ Truthy(ss.action_plan)
    /\ HasItem(ss.action_plan, K_steps)
    /\ Iterable(Item(ss.action_plan, K_steps))
    /\ IF Item(ss.action_plan, K_steps).type = "list"
       THEN \A j \in 1..Len(Item(ss.action_plan, K_steps).v) :
                StepRenders(Item(ss.action_plan, K_steps).v[j])
       ELSE Item(ss.action_plan, K_steps).v = <<>>
    /\ HasItem(ss.action_plan, K_success_metrics)
    /\ Iterable(Item(ss.action_plan, K_success_metrics))
    /\ HasItem(ss.action_plan, K_timeline)

\* What a script run showed: the button pressed, the st.success / st.error
\* message of its handler, the LLM calls it made and the answer it got.
Run(button, message, llm_calls, response) ==
    [button |-> button, message |-> message, llm_calls |-> llm_calls, response |-> response]

NoResponse == [raises |-> FALSE, text |-> <<>>]

\* main2.py:10-20: the first run of a session.
DbInit ==
    /\ session_state = [authenticated |-> FALSE,
                        sf_connection |-> PyNone,
                        gemini_analyzer |-> PyMissing,
                        account_data |-> PyNone,
                        nba_recommendation |-> PyNone,
                        selected_action |-> PyMissing,
                        action_plan |-> PyNone]
    /\ last_run = Run("", "info", 0, NoResponse)
    /\ done = {}
    /\ account_id = ""
    /\ derived_from = [nba |-> "", selected |-> "", plan |-> ""]
    /\ executed = NoOutput
    /\ ExIdle
    /\ RtIdle
    /\ CtxIdle
    /\ RecIdle
    /\ WfIdle
    /\ PaIdle
    /\ AgIdle
    /\ SaIdle
    /\ AnIdle
    /\ ClIdle
    /\ SeIdle
    /\ CoIdle
    /\ XrIdle
    /\ PmIdle

\* "Connect" (main2.py:236-249).
Connect(sf_ok, gemini_ok) ==
    /\ ~session_state.authenticated
    /\ IF sf_ok /\ gemini_ok
       THEN /\ session_state' = [session_state EXCEPT
                                    !.sf_connection = [type |-> "SalesforceConnector"],
                                    !.gemini_analyzer = [type |-> "GeminiAnalyzer"],
                                    !.authenticated = TRUE]
            /\ last_run' = Run("Connect", "success", 0, NoResponse)
            /\ done' = done \cup {"connect"}
       ELSE /\ last_run' = Run("Connect", "error", 0, NoResponse)
            /\ UNCHANGED <<session_state, done>>
    /\ UNCHANGED <<account_id, derived_from, executed>>
    /\ DbFrame

\* "Disconnect" (main2.py:252-255).
Disconnect ==
    /\ session_state.authenticated
    /\ session_state' = [session_state EXCEPT !.authenticated = FALSE,
                                              !.sf_connection = PyNone]
    /\ last_run' = Run("Disconnect", "info", 0, NoResponse)
    /\ UNCHANGED <<done, account_id, derived_from, executed>>
    /\ DbFrame

\* A handler that loses the slot's old value when its call raises (mutant of
\* AfterHandler).
AfterHandlerSlotCleared(ss, slot, outcome) ==
    [ss EXCEPT ![slot] = IF outcome.kind = "returned" THEN outcome.val ELSE PyNone]

\* try: value = call(); st.session_state.slot = value; st.success(...)
\* except Exception as e: st.error(...)
\* -- the session state after the handler (main2.py:265-270, 292-299, 328-336).
AfterHandler(ss, slot, outcome) ==
    IF outcome.kind = "returned" THEN [ss EXCEPT ![slot] = outcome.val] ELSE ss

\* The message the handler shows: st.success or st.error.
MessageOf(outcome) == IF outcome.kind = "returned" THEN "success" ELSE "error"

\* The steps done, after a handler that performs the given step.
DoneAfter(step, outcome) == IF outcome.kind = "returned" THEN done \cup {step} ELSE done

\* The user edits the account id text input (main2.py:261); the script
\* reruns with the new value and no button pressed.
EditAccountId(text) ==
    /\ session_state.authenticated
    /\ text # account_id
    /\ account_id' = text
    /\ last_run' = Run("", "none", 0, NoResponse)
    /\ UNCHANGED <<session_state, done, derived_from, executed>>
    /\ DbFrame

\* "Fetch Account Data" (main2.py:263-270).
FetchAccountData(crm_ok) ==
    /\ session_state.authenticated
    /\ LET account_data == GetAccountData(account_id, crm_ok)
       IN  /\ session_state' = AfterHandler(session_state, "account_data", account_data)
           /\ last_run' = Run("Fetch Account Data", MessageOf(account_data), 0, NoResponse)
           /\ done' = DoneAfter("fetch", account_data)
    /\ UNCHANGED <<account_id, derived_from, executed>>
    /\ DbFrame

\* "Generate Next Best Actions" (main2.py:290-299).
GenerateNextBestActions(response) ==
    /\ AccountDisplayOk(session_state)
    /\ LET nba == AnalyzeAccountForNba(response)
       IN  /\ session_state' = AfterHandler(session_state, "nba_recommendation", nba)
           /\ last_run' = Run("Generate Next Best Actions", MessageOf(nba), 1, response)
           /\ done' = DoneAfter("analyze", nba)
           /\ derived_from' = IF nba.kind = "returned"
                              THEN [derived_from EXCEPT
                                       !.nba = session_state.account_data.account_id]
                              ELSE derived_from
    /\ UNCHANGED <<account_id, executed>>
    /\ DbFrame

\* "Select this action", the i-th one (main2.py:319-321).
SelectAction(i) ==
    /\ SelectButton(session_state, i)
    /\ session_state' = [session_state EXCEPT
                            !.selected_action = NextBestActions(session_state).v[i]]
    /\ last_run' = Run("Select this action", "none", 0, NoResponse)
    /\ done' = done \cup {"select"}
    /\ derived_from' = [derived_from EXCEPT !.selected = derived_from.nba]
    /\ UNCHANGED <<account_id, executed>>
    /\ DbFrame

\* "Generate Action Plan" (main2.py:326-336).
GenerateActionPlan(response) ==
    /\ PlanButton(session_state)
    /\ LET plan == CreateActionPlan(response)
       IN  /\ session_state' = AfterHandler(session_state, "action_plan", plan)
           /\ last_run' = Run("Generate Action Plan", MessageOf(plan), 1, response)
           /\ done' = DoneAfter("plan", plan)
           /\ derived_from' = IF plan.kind = "returned"
                              THEN [derived_from EXCEPT !.plan = derived_from.nba]
                              ELSE derived_from
    /\ UNCHANGED <<account_id, executed>>
    /\ DbFrame

\* "Execute Action Plan" (main2.py:360-375): execute_action_plan runs on the
\* stored plan with the text input's account id; the session state is not
\* written.
ExecuteActionPlan ==
    /\ ExecuteButton(session_state)
    /\ last_run' = Run("Execute Action Plan", "results", 0, NoResponse)
    /\ done' = done \cup {"execute"}
    /\ executed' = [kind |-> "executed", account_id |-> account_id,
                    plan |-> session_state.action_plan,
                    plan_from |-> derived_from.plan,
                    shown_account |-> session_state.account_data.account_id]
    /\ UNCHANGED <<session_state, account_id, derived_from>>
    /\ DbFrame

\* The most actions an answer lists.
MaxActions == 1

DbNext ==
    \/ \E sf_ok, gemini_ok \in BOOLEAN : Connect(sf_ok, gemini_ok)
    \/ Disconnect
    \/ \E text \in AccountIds : EditAccountId(text)
    \/ \E crm_ok \in BOOLEAN : FetchAccountData(crm_ok)
    \/ \E response \in LlmResponses(NbaAnswers) : GenerateNextBestActions(response)
    \/ \E i \in 1..MaxActions : SelectAction(i)
    \/ \E response \in LlmResponses(PlanAnswers) : GenerateActionPlan(response)
    \/ ExecuteActionPlan

SpecDashboard == DbInit /\ [][DbNext]_vars

\* The slots of the session state that hold something.
AccountDataSet == Truthy(session_state.account_data)
RecommendationSet == Truthy(session_state.nba_recommendation)
ActionSelected == session_state.selected_action.type # "<missing>"
ActionPlanSet == Truthy(session_state.action_plan)

\* C11: over any sequence of button presses the pipeline steps happen only
\* in the order connect, fetch, analyze, select, plan, execute: Execute
\* Action Plan fires only when the session is authenticated and account_data,
\* nba_recommendation, a selected action and action_plan are all set, each by
\* a successful earlier step of the session; a plan is generated only after
\* a selection, a selection made only after an analysis, an analysis only
\* after a fetch, and a fetch only after a connect.
C11_PipelineOrder ==
    /\ last_run.button = "Execute Action Plan" =>
           /\ session_state.authenticated
           /\ AccountDataSet /\ RecommendationSet /\ ActionSelected /\ ActionPlanSet
           /\ {"connect", "fetch", "analyze", "select", "plan"} \subseteq done
    /\ "execute" \in done => "plan" \in done
    /\ "plan" \in done => "select" \in done
    /\ "select" \in done => "analyze" \in done
    /\ "analyze" \in done => "fetch" \in done
    /\ "fetch" \in done => "connect" \in done
    /\ AccountDataSet => "fetch" \in done
    /\ RecommendationSet => "analyze" \in done
    /\ ActionSelected => "select" \in done
    /\ ActionPlanSet => "plan" \in done

\* The plan of a selected action has just been executed.
C11_Witness ==
    /\ last_run.button = "Execute Action Plan"
    /\ "execute" \in done
    /\ ActionSelected
    /\ ActionPlanSet


\* C14: session state is discarded on disconnect: after Disconnect no
\* account data, recommendation, selected action or action plan remains in
\* the session state, so the Connect that follows starts with no account
\* loaded and nothing to display or execute.
C14_DisconnectDiscards ==
    last_run.button \in {"Disconnect", "Connect"} =>
        /\ ~AccountDataSet
        /\ ~RecommendationSet
        /\ ~ActionSelected
        /\ ~ActionPlanSet


\* The buttons whose handlers have a try/except.
GuardedButtons ==
    {"Connect", "Fetch Account Data", "Generate Next Best Actions", "Generate Action Plan"}

\* C15: an exception raised by Connect, Fetch Account Data, Generate Next
\* Best Actions or Generate Action Plan is caught at that action and shown
\* as an error message, and the session state keeps the values it had before
\* the action (authenticated / sf_connection, account_data,
\* nba_recommendation, action_plan included).
C15_ErrorKeepsSlots ==
    [][ (last_run'.button \in GuardedButtons /\ last_run'.message # "success")
            => (last_run'.message = "error" /\ session_state' = session_state) ]_vars

\* An analysis that failed after an earlier one had succeeded.
C15_Witness ==
    /\ last_run.button = "Generate Next Best Actions"
    /\ last_run.message = "error"
    /\ RecommendationSet


\* The slot a generating button writes.
SlotOf(button) ==
    IF button = "Generate Next Best Actions" THEN "nba_recommendation" ELSE "action_plan"

\* The outcome of the last run, judged from the answer the LLM gave.
ParsedAsIs(read) ==
    /\ last_run.llm_calls = 1
    /\ IF read.ok
       THEN /\ last_run.message = "success"
            /\ session_state[SlotOf(last_run.button)] = read.val
       ELSE last_run.message = "error"

\* C20: GeminiAnalyzer parses the LLM's output optimistically: output that
\* is not valid JSON raises a parse error, with no repair and no second LLM
\* call; output that is valid JSON is returned unchanged, whatever its keys,
\* and the dashboard stores it as nba_recommendation or action_plan.
C20_OptimisticParsing ==
    (last_run.button \in {"Generate Next Best Actions", "Generate Action Plan"}
        /\ ~last_run.response.raises)
        => Bind(JsonLoads(last_run.response.text), ParsedAsIs)

\* A recommendation without health_score has been stored.
C20_Witness ==
    /\ RecommendationSet
    /\ ~HasItem(session_state.nba_recommendation, K_health_score)
    /\ last_run.button = "Generate Next Best Actions"
    /\ last_run.message = "success"

(***************************************************************************)
(* FrameworkOrchestrator.run_parallel_analysis                             *)
(* (src/Frameworks/salesforce_nba_unified.py:42-217)                       *)
(***************************************************************************)

\* self.frameworks, in insertion order (salesforce_nba_unified.py:198-202).
FrameworkNames == <<"CrewAI", "LangGraph", "AutoGen">>
NameSet == { FrameworkNames[i] : i \in 1..Len(FrameworkNames) }

\* ThreadPoolExecutor(max_workers=3)
MaxWorkers == 3

\* analyze_account of each framework (salesforce_nba_unified.py:48-64,
\* 99-110, 145-160): a fixed record; health scores in tenths.
AnalyzeAccount(name, account_data) ==
    [framework |-> name,
     health_score |-> IF name = "CrewAI" THEN 80 ELSE IF name = "LangGraph" THEN 75 ELSE 82,
     insights |-> 3]

\* The account_data the caller may pass.
PaInputs == { [account |-> [Name |-> n], opportunities |-> k] : n \in {"Acme", "Beta"}, k \in 0..1 }

\* The future of a task: not submitted, queued, running, or done with a result.
NotSubmitted == [task |-> "none"]
Queued == [task |-> "queued"]
Running == [task |-> "running"]
Done(result) == [task |-> "done", result |-> result]

PaInit ==
    /\ pa_pc = "submit"
    /\ pa_account_data \in PaInputs
    /\ pa_input = pa_account_data
    /\ futures = [n \in NameSet |-> NotSubmitted]
    /\ pa_results = <<>>
    /\ ExIdle
    /\ RtIdle
    /\ CtxIdle
    /\ RecIdle
    /\ WfIdle
    /\ DbIdle
    /\ AgIdle
    /\ SaIdle
    /\ AnIdle
    /\ ClIdle
    /\ SeIdle
    /\ CoIdle
    /\ XrIdle
    /\ PmIdle

\* The names whose future is in the given task state.
InTask(t) == { n \in NameSet : futures[n].task = t }

\* The position of a name in self.frameworks.
Position(name) == CHOOSE i \in 1..Len(FrameworkNames) : FrameworkNames[i] = name

\* executor.submit(framework.analyze_account, account_data), for the next
\* name of the dict comprehension (salesforce_nba_unified.py:209-212).
Submit ==
    /\ pa_pc = "submit"
    /\ LET name == FrameworkNames[Cardinality(NameSet \ InTask("none")) + 1]
       IN  futures' = [futures EXCEPT ![name] = Queued]
    /\ pa_pc' = IF Cardinality(InTask("none")) = 1 THEN "collect" ELSE "submit"
    /\ UNCHANGED <<pa_account_data, pa_input, pa_results>>
    /\ PaFrame

\* A worker thread takes the oldest queued task, if fewer than max_workers
\* tasks are running.
WorkerStart(name) ==
    /\ futures[name].task = "queued"
    /\ Cardinality(InTask("running")) < MaxWorkers
    /\ \A other \in InTask("queued") : Position(name) <= Position(other)
    /\ futures' = [futures EXCEPT ![name] = Running]
    /\ UNCHANGED <<pa_pc, pa_account_data, pa_input, pa_results>>
    /\ PaFrame

\* The worker's analyze_account returns and sets the future's result.
WorkerFinish(name) ==
    /\ futures[name].task = "running"
    /\ futures' = [futures EXCEPT ![name] = Done(AnalyzeAccount(name, pa_account_data))]
    /\ UNCHANGED <<pa_pc, pa_account_data, pa_input, pa_results>>
    /\ PaFrame

\* future.result() that returns whatever the future holds, without waiting
\* (mutant of ResultReady).
ResultReadyAtOnce(name) == TRUE

\* future.result() blocks until the task is done.
ResultReady(name) == futures[name].task = "done"

\* What future.result() returns.
FutureResult(name) == IF futures[name].task = "done" THEN futures[name].result ELSE NoOutput

\* results[name] = future.result(), for the next name of futures.items()
\* (salesforce_nba_unified.py:214-215).
Collect ==
    /\ pa_pc = "collect"
    /\ LET name == FrameworkNames[Len(pa_results) + 1]
       IN  /\ ResultReady(name)
           /\ pa_results' = Append(pa_results, [key |-> name, value |-> FutureResult(name)])
    /\ pa_pc' = IF Len(pa_results) + 1 = Len(FrameworkNames) THEN "shutdown" ELSE "collect"
    /\ UNCHANGED <<pa_account_data, pa_input, futures>>
    /\ PaFrame

\* The with block ends: executor.shutdown(wait=True), then return results.
ShutdownAndReturn ==
    /\ pa_pc = "shutdown"
    /\ InTask("queued") \cup InTask("running") = {}
    /\ pa_pc' = "returned"
    /\ UNCHANGED <<pa_account_data, pa_input, futures, pa_results>>
    /\ PaFrame

PaNext ==
    \/ Submit
    \/ \E name \in NameSet : WorkerStart(name)
    \/ \E name \in NameSet : WorkerFinish(name)
    \/ Collect
    \/ ShutdownAndReturn

SpecParallel == PaInit /\ [][PaNext]_vars

\* C12: whatever the interleaving of the three workers, the mapping
\* returned has exactly the three framework names as keys, each mapped to
\* the value of that framework's own analyze_account on the account_data
\* given; account_data is not modified; and the call returns only after all
\* three workers have finished.
C12_ParallelResults ==
    pa_pc = "returned" =>
        /\ { pa_results[i].key : i \in 1..Len(pa_results) } = NameSet
        /\ Len(pa_results) = Cardinality(NameSet)
        /\ \A i \in 1..Len(pa_results) :
               pa_results[i].value = AnalyzeAccount(pa_results[i].key, pa_input)
        /\ pa_account_data = pa_input
        /\ InTask("done") = NameSet

\* The call has returned the three analyses.
C12_Witness ==
    /\ pa_pc = "returned"
    /\ Len(pa_results) = 3
    /\ pa_results[2].value.framework = "LangGraph"

(***************************************************************************)
(* The agent wrappers: BaseNBAAgent, DataAnalystAgent, StrategistAgent     *)
(* (src/Frameworks/crewai/src/agents)                                      *)
(***************************************************************************)

\* Accesses of the agent property in one run.
MaxAccesses == 5

AgentClasses == {"DataAnalystAgent", "StrategistAgent"}

\* role (data_analyst.py:14-16, strategist.py:14-16).
Role(cls) ==
    IF cls = "StrategistAgent" THEN "Customer Success Strategist" ELSE "Senior Data Analyst"

\* goal (data_analyst.py:18-20, strategist.py:18-20).
Goal(cls) ==
    IF cls = "StrategistAgent"
    THEN "Develop strategic Next Best Actions based on account analysis"
    ELSE "Analyze Salesforce account data to identify patterns, risks, and opportunities"

\* backstory (data_analyst.py:22-32, strategist.py:22-32): its first words.
Backstory(cls) ==
    IF cls = "StrategistAgent" THEN "You are a seasoned customer success strategist"
    ELSE "You are an expert data analyst"

\* tools (data_analyst.py:34-40, strategist.py:34-40).
Tools(cls) ==
    IF cls = "StrategistAgent"
    THEN <<"identify_upsell_opportunities", "assess_renewal_probability", "create_growth_strategy">>
    ELSE <<"analyze_customer_sentiment", "calculate_account_metrics", "identify_trends">>

\* The flag of the base class, as if no subclass overrode it (mutant of
\* AllowDelegation).
AllowDelegationNotOverridden(cls) == FALSE

\* allow_delegation (base_agent.py:54-57, data_analyst.py:42-44,
\* strategist.py:42-44).
AllowDelegation(cls) == cls = "StrategistAgent"

\* Agent(role=..., goal=..., ...) (base_agent.py:43-51); id tells one Agent
\* object from another.
NewAgent(w, id) ==
    [kind |-> "Agent", id |-> id,
     role |-> Role(w.cls), goal |-> Goal(w.cls), backstory |-> Backstory(w.cls),
     verbose |-> w.verbose, allow_delegation |-> AllowDelegation(w.cls),
     llm |-> w.llm, tools |-> Tools(w.cls)]

\* __init__ (base_agent.py:11-14).
AgInit ==
    /\ wrapper \in [cls : AgentClasses, llm : {"llm_1", "llm_2"}, verbose : BOOLEAN]
    /\ self_agent = [kind |-> "None"]
    /\ agents_created = 0
    /\ accesses = <<>>
    /\ ExIdle
    /\ RtIdle
    /\ CtxIdle
    /\ RecIdle
    /\ WfIdle
    /\ DbIdle
    /\ PaIdle
    /\ SaIdle
    /\ AnIdle
    /\ ClIdle
    /\ SeIdle
    /\ CoIdle
    /\ XrIdle
    /\ PmIdle

\* not self._agent
NotSet(slot) == slot.kind = "None"

\* One access of the agent property (base_agent.py:39-52).  valid: the
\* Agent constructor accepts its arguments.
AccessAgent(valid) ==
    /\ Len(accesses) < MaxAccesses
    /\ IF NotSet(self_agent)
       THEN IF valid
            THEN /\ self_agent' = NewAgent(wrapper, agents_created + 1)
                 /\ agents_created' = agents_created + 1
                 /\ accesses' = Append(accesses, NewAgent(wrapper, agents_created + 1))
            ELSE /\ accesses' = Append(accesses, Raised("ValidationError"))
                 /\ UNCHANGED <<self_agent, agents_created>>
       ELSE /\ accesses' = Append(accesses, self_agent)
            /\ UNCHANGED <<self_agent, agents_created>>
    /\ UNCHANGED wrapper
    /\ AgFrame

AgNext == \E valid \in BOOLEAN : AccessAgent(valid)

SpecAgents == AgInit /\ [][AgNext]_vars

\* The accesses that returned an Agent.
Returned == { i \in 1..Len(accesses) : accesses[i].kind = "Agent" }

\* C16: the agent exposed by the agent property is created on first access
\* with the wrapper's own role, goal, backstory, tools and delegation flag
\* (True for StrategistAgent, False for DataAnalystAgent), and every later
\* access returns that same agent, not a new one.
C16_AgentCreatedOnce ==
    /\ agents_created <= 1
    /\ \A i \in Returned :
           /\ accesses[i].role = Role(wrapper.cls)
           /\ accesses[i].goal = Goal(wrapper.cls)
           /\ accesses[i].backstory = Backstory(wrapper.cls)
           /\ accesses[i].tools = Tools(wrapper.cls)
           /\ accesses[i].allow_delegation = (wrapper.cls = "StrategistAgent")
    /\ \A i, j \in Returned : accesses[i] = accesses[j]
    /\ (accesses # <<>> /\ accesses[1].kind = "Agent") => Returned = 1..Len(accesses)

\* A strategist's agent returned by three accesses in a row.
C16_Witness ==
    /\ wrapper.cls = "StrategistAgent"
    /\ Len(accesses) >= 3
    /\ Returned = 1..Len(accesses)
    /\ accesses[3].allow_delegation

(***************************************************************************)
(* SalesforceActions                                                       *)
(* (src/Frameworks/crewai/src/integrations/salesforce/actions.py)          *)
(***************************************************************************)

\* Calls of SalesforceActions operations in one run.
MaxCalls == 3

Operations == {"create_task", "update_opportunity", "create_case", "log_activity"}

\* The CRM write each operation makes (actions.py:40, 64, 101, 137).
WriteOf(op) ==
    IF op = "create_task" THEN [object |-> "Task", method |-> "create"]
    ELSE IF op = "update_opportunity" THEN [object |-> "Opportunity", method |-> "update"]
    ELSE IF op = "create_case" THEN [object |-> "Case", method |-> "create"]
    ELSE [object |-> "Task", method |-> "create"]

\* An operation that lets the exception of its write through (mutant of
\* OnException).
OnExceptionPropagated(error) == Raised(error)

\* except Exception as e: return {'success': False, 'error': str(e), ...}
OnException(error) == [kind |-> "returned", success |-> FALSE, error |-> error]

\* return {'success': True, 'id': ..., ...}
OnSuccess(id) == [kind |-> "returned", success |-> TRUE, id |-> id]

\* The id in the value returned: the id the CRM gave the new record, or the
\* opportunity_id passed in (actions.py:44, 68, 105, 141).
ResultId(op, n) == IF op = "update_opportunity" THEN "opportunity_id" ELSE <<"id", n>>

SaInit ==
    /\ sa_connection = FALSE
    /\ sa_calls = <<>>
    /\ sa_writes = <<>>
    /\ ExIdle
    /\ RtIdle
    /\ CtxIdle
    /\ RecIdle
    /\ WfIdle
    /\ DbIdle
    /\ PaIdle
    /\ AgIdle
    /\ AnIdle
    /\ ClIdle
    /\ SeIdle
    /\ CoIdle
    /\ XrIdle
    /\ PmIdle

\* One call of an operation: the try block evaluates self.client.connection
\* (which logs in when no connection is cached, client.py:17-36), then makes
\* the write.  login_ok and accepted are the CRM's answers.
CallOperation(op, login_ok, accepted) ==
    /\ Len(sa_calls) < MaxCalls
    /\ IF ~sa_connection /\ ~login_ok
       THEN /\ sa_calls' = Append(sa_calls, [op |-> op, writes |-> 0,
                                              result |-> OnException("Connection failed")])
            /\ UNCHANGED <<sa_connection, sa_writes>>
       ELSE /\ sa_connection' = TRUE
            /\ sa_writes' = Append(sa_writes, [write |-> WriteOf(op), accepted |-> accepted])
            /\ sa_calls' = Append(sa_calls,
                                  [op |-> op, writes |-> 1,
                                   result |-> IF accepted
                                              THEN OnSuccess(ResultId(op, Len(sa_writes) + 1))
                                              ELSE OnException("rejected")])
    /\ SaFrame

SaNext ==
    \E op \in Operations, login_ok, accepted \in BOOLEAN : CallOperation(op, login_ok, accepted)

SpecActions == SaInit /\ [][SaNext]_vars

\* The writes the CRM received during the calls before the i-th.
WritesBefore(i) ==
    Cardinality({ j \in 1..(i - 1) : sa_calls[j].writes = 1 })

\* C19 (as claimed): every operation turns the outcome of its CRM write into
\* a value and never propagates the exception: success = true with the
\* record id when the CRM accepts the write, success = false with the error
\* text when it rejects it; exactly one CRM write is attempted per call.
C19_OneWritePerCall ==
    /\ Len(sa_writes) = Len(sa_calls)
    /\ \A i \in 1..Len(sa_calls) :
           /\ sa_calls[i].writes = 1
           /\ sa_calls[i].result.kind = "returned"
           /\ sa_calls[i].result.success = sa_writes[WritesBefore(i) + 1].accepted

\* C19 (amended): every operation returns a value and never propagates an
\* exception; it attempts at most one CRM write per call, and none when the
\* login for a connection not yet established fails; it returns success =
\* true with the record id exactly when its write was made and accepted, and
\* success = false with the error text when the write was rejected or the
\* login failed.
C19_AtMostOneWritePerCall ==
    /\ Len(sa_writes) = WritesBefore(Len(sa_calls) + 1)
    /\ \A i \in 1..Len(sa_calls) :
           /\ sa_calls[i].writes \in {0, 1}
           /\ sa_calls[i].result.kind = "returned"
           /\ IF sa_calls[i].writes = 1
              THEN /\ sa_writes[WritesBefore(i) + 1].write = WriteOf(sa_calls[i].op)
                   /\ sa_calls[i].result.success = sa_writes[WritesBefore(i) + 1].accepted
              ELSE /\ ~sa_calls[i].result.success
                   /\ sa_calls[i].result.error = "Connection failed"
           /\ IF sa_calls[i].result.success
              THEN sa_calls[i].result.id = ResultId(sa_calls[i].op, WritesBefore(i) + 1)
              ELSE sa_calls[i].result.error \in {"rejected", "Connection failed"}

\* A call whose login failed, then a call whose write was rejected, then a
\* call whose write was accepted.
C19_Witness ==
    /\ Len(sa_calls) = 3
    /\ sa_calls[1].writes = 0
    /\ sa_calls[2].writes = 1 /\ ~sa_calls[2].result.success
    /\ sa_calls[3].result.success
    /\ Len(sa_writes) = 2

\* C22 (as claimed): the 'Open Opportunities' metric shown for a fetched
\* account is the number of its opportunity records whose IsClosed is false.
C22_MetricCountsOpenOpportunities ==
    AccountDisplayOk(session_state) =>
        OpenOpportunitiesMetric(session_state)
            = Len(OpenOpportunities(session_state.account_data.opportunities))

\* C25 (as claimed): execute_action_plan writes to the account the executed
\* plan was derived from, and a recommendation, selected action or plan
\* shown next to the fetched account was derived from that account.
C25_PlanExecutedOnItsAccount ==
    /\ executed.kind = "executed" => executed.account_id = executed.plan_from
    /\ AccountDisplayOk(session_state) =>
           /\ Truthy(session_state.nba_recommendation) =>
                  derived_from.nba = session_state.account_data.account_id
           /\ Truthy(session_state.action_plan) =>
                  derived_from.plan = session_state.account_data.account_id

\* The fetch of this run raises: the login or a query fails, or the summary's
\* sum meets a null amount.
WfFetchFails ==
    IF wf_crm = CrmFailure THEN TRUE ELSE FetchSalesforceData(wf_crm).kind = "raised"

NotPassed == <<>>

\* HealthMetrics(score=...): score: int = Field(ge=1, le=10) (analysis.py:9).
ValidScore(score) == score # NotPassed /\ ValueOf(score) >= 1 /\ ValueOf(score) <= 10

\* sentiment_score: float = Field(ge=0, le=10) (analysis.py:19): the field
\* has no default, so pydantic requires it.
ValidSentiment(sentiment) ==
    sentiment # NotPassed /\ ValueOf(sentiment) >= 0 /\ ValueOf(sentiment) <= 10

\* AccountAnalysis(**kwargs) (analysis.py:12-22): the validated object, or
\* pydantic's ValidationError.
AccountAnalysisOf(kwargs) ==
    IF ValidScore(kwargs.score) /\ ValidSentiment(kwargs.sentiment_score)
    THEN [kind |-> "returned",
          val |-> [account_id |-> kwargs.account_id,
                   health_metrics |-> [score |-> ValueOf(kwargs.score)],
                   insights |-> kwargs.insights,
                   risks |-> kwargs.risks,
                   opportunities |-> kwargs.opportunities,
                   sentiment_score |-> ValueOf(kwargs.sentiment_score)]]
    ELSE Raised("ValidationError")

\* _parse_analysis_results (nba_workflow.py:88-99): the same dictionary
\* whatever the crew returned; it has no sentiment_score.
ParseAnalysisResults(raw_result) ==
    [score |-> Number(8),
     insights |-> <<"Insight 1", "Insight 2">>,
     risks |-> <<"Risk 1">>,
     opportunities |-> <<"Opportunity 1">>,
     sentiment_score |-> NotPassed]

\* The keyword arguments of the sample_analysis fixture (conftest.py:50-59).
SampleAnalysisKwargs ==
    [account_id |-> "001XX000003DHPh",
     score |-> Number(8),
     insights |-> <<"Strong engagement", "Growth potential">>,
     risks |-> <<"Contract renewal approaching">>,
     opportunities |-> <<"Upsell opportunity identified">>,
     sentiment_score |-> NotPassed]

\* Scores and sentiment scores a caller may pass.
MaxScore == 11
ScoreArgs == { NotPassed } \cup { Number(n) : n \in 0..MaxScore }
SentimentArgs == { NotPassed } \cup { Number(n) : n \in {-1, 0, 5, 10, 11} }

\* The keyword arguments of direct constructions: the fixture's, and the
\* fixture's with each score and sentiment score.
AnalysisKwargs ==
    { [SampleAnalysisKwargs EXCEPT !.score = sc, !.sentiment_score = se] :
        sc \in ScoreArgs, se \in SentimentArgs }

AnInit ==
    /\ an_account_id \in {"001A", "001XX000003DHPh"}
    /\ an_kwargs \in AnalysisKwargs
    /\ an_run = NoOutput
    /\ an_built = NoOutput
    /\ ExIdle
    /\ RtIdle
    /\ CtxIdle
    /\ RecIdle
    /\ WfIdle
    /\ DbIdle
    /\ PaIdle
    /\ AgIdle
    /\ SaIdle
    /\ ClIdle
    /\ SeIdle
    /\ CoIdle
    /\ XrIdle
    /\ PmIdle

\* run_analysis (nba_workflow.py:29-48).  fetch_ok: get_account_async
\* returned the account; crew_ok: analysis_crew.execute returned.
RunAnalysis(fetch_ok, crew_ok) ==
    /\ an_run = NoOutput
    /\ an_run' = [kind |-> "run", fetch_ok |-> fetch_ok, crew_ok |-> crew_ok,
                  result |-> IF ~fetch_ok THEN Raised("SalesforceQueryError")
                             ELSE IF ~crew_ok THEN Raised("CrewError")
                             ELSE AccountAnalysisOf(
                                      [account_id |-> an_account_id]
                                          @@ ParseAnalysisResults("analysis_result"))]
    /\ UNCHANGED <<an_account_id, an_kwargs, an_built>>
    /\ AnFrame

\* AccountAnalysis(account_id=..., health_metrics=HealthMetrics(score=...), ...)
\* called directly, as the sample_analysis fixture does.
BuildAnalysis ==
    /\ an_built = NoOutput
    /\ an_built' = AccountAnalysisOf(an_kwargs)
    /\ UNCHANGED <<an_account_id, an_kwargs, an_run>>
    /\ AnFrame

AnNext ==
    \/ \E fetch_ok, crew_ok \in BOOLEAN : RunAnalysis(fetch_ok, crew_ok)
    \/ BuildAnalysis

SpecAnalysis == AnInit /\ [][AnNext]_vars

\* C23 (as claimed): run_analysis, when the CRM fetch and the analysis crew
\* both succeed, returns an AccountAnalysis for the requested account whose
\* health score lies in 1..10; and an AccountAnalysis built from account_id,
\* health_metrics, insights, risks and opportunities alone is valid.
C23_RunAnalysisReturnsAnalysis ==
    /\ (an_run.kind = "run" /\ an_run.fetch_ok /\ an_run.crew_ok) =>
           /\ an_run.result.kind = "returned"
           /\ an_run.result.val.account_id = an_account_id
           /\ an_run.result.val.health_metrics.score \in 1..10
    /\ (an_built # NoOutput /\ an_kwargs = SampleAnalysisKwargs) =>
           an_built.kind = "returned"

(***************************************************************************)
(* SalesforceClient.connection                                             *)
(* (src/Frameworks/crewai/src/integrations/salesforce/client.py)           *)
(***************************************************************************)

\* Clients constructed and accesses to .connection in one run.
MaxClients == 2
MaxConnectionUses == 4

\* The methods that read self.connection (client.py:82-127, actions.py:40-137).
ConnectionUsers == {"query", "create"}

\* A connection property that logs in on every access (mutant of
\* ConnectionProperty).
ConnectionPropertyNotCached(cached, login_ok, n) ==
    IF login_ok
    THEN [connection |-> n, logged_in |-> TRUE, result |-> [kind |-> "returned", val |-> n]]
    ELSE [connection |-> 0, logged_in |-> TRUE,
          result |-> Raised("SalesforceConnectionError")]

\* The connection property and _connect (client.py:16-35).  cached is
\* self._connection (0 for None), n the Salesforce object a successful login
\* would construct.
ConnectionProperty(cached, login_ok, n) ==
    IF cached # 0
    THEN [connection |-> cached, logged_in |-> FALSE,
          result |-> [kind |-> "returned", val |-> cached]]
    ELSE IF login_ok
    THEN [connection |-> n, logged_in |-> TRUE, result |-> [kind |-> "returned", val |-> n]]
    ELSE [connection |-> 0, logged_in |-> TRUE,
          result |-> Raised("SalesforceConnectionError")]

\* Before authenticate has run there is no client.
ClInit ==
    /\ cl_client = 0
    /\ cl_connection = 0
    /\ cl_logins = 0
    /\ cl_log = <<>>
    /\ ExIdle
    /\ RtIdle
    /\ CtxIdle
    /\ RecIdle
    /\ WfIdle
    /\ DbIdle
    /\ PaIdle
    /\ AgIdle
    /\ SaIdle
    /\ AnIdle
    /\ SeIdle
    /\ CoIdle
    /\ XrIdle
    /\ PmIdle

\* sf_client = SalesforceClient() (sidebar.py:67, client.py:13-14): a new
\* client without a connection; no login.
NewClient ==
    /\ cl_client < MaxClients
    /\ cl_client' = cl_client + 1
    /\ cl_connection' = 0
    /\ UNCHANGED <<cl_logins, cl_log>>
    /\ ClFrame

\* One access to self.connection by a method of the client.
UseConnection(user, login_ok) ==
    /\ cl_client > 0
    /\ Len(cl_log) < MaxConnectionUses
    /\ LET c == ConnectionProperty(cl_connection, login_ok, cl_logins + 1)
       IN  /\ cl_connection' = c.connection
           /\ cl_logins' = IF c.logged_in THEN cl_logins + 1 ELSE cl_logins
           /\ cl_log' = Append(cl_log, [client |-> cl_client, user |-> user,
                                        cached |-> cl_connection,
                                        logged_in |-> c.logged_in, result |-> c.result])
    /\ UNCHANGED cl_client
    /\ ClFrame

ClNext ==
    \/ NewClient
    \/ \E user \in ConnectionUsers, login_ok \in BOOLEAN : UseConnection(user, login_ok)

SpecClient == ClInit /\ [][ClNext]_vars

\* The accesses of the log made on the given client.
UsesOf(client) == SelectSeq(cl_log, LAMBDA e : e.client = client)

\* C26: constructing a client performs no login; an access to connection
\* logs in exactly when the client holds no connection; after a successful
\* login every later access on that client returns the same connection
\* without a login; a failed login raises SalesforceConnectionError and
\* leaves no connection cached, so the next access logs in again.
C26_LazyConnectAtMostOnce ==
    /\ cl_logins = Len(SelectSeq(cl_log, LAMBDA e : e.logged_in))
    /\ \A client \in 1..MaxClients :
          LET uses == UsesOf(client)
          IN  \A i \in 1..Len(uses) :
                 /\ uses[i].logged_in = (uses[i].cached = 0)
                 /\ uses[i].cached = IF i = 1 THEN 0
                                     ELSE IF uses[i - 1].result.kind = "returned"
                                     THEN uses[i - 1].result.val
                                     ELSE 0
                 /\ uses[i].cached # 0 =>
                        uses[i].result = [kind |-> "returned", val |-> uses[i].cached]
                 /\ uses[i].result.kind = "raised" =>
                        /\ uses[i].logged_in
                        /\ uses[i].result.error = "SalesforceConnectionError"
    /\ \A client \in 1..MaxClients :
          Cardinality({ i \in 1..Len(cl_log) :
                          /\ cl_log[i].client = client
                          /\ cl_log[i].logged_in
                          /\ cl_log[i].result.kind = "returned" }) <= 1

\* A client whose first login failed, whose second access logged in, and
\* whose two later accesses returned that connection without a login.
C26_Witness ==
    /\ Len(cl_log) = 4
    /\ \A i \in 1..4 : cl_log[i].client = 1
    /\ cl_log[1].result.kind = "raised"
    /\ cl_log[2].logged_in /\ cl_log[2].result.kind = "returned"
    /\ ~cl_log[3].logged_in /\ cl_log[3].result = cl_log[2].result
    /\ ~cl_log[4].logged_in /\ cl_log[4].result = cl_log[2].result
    /\ cl_logins = 2

(***************************************************************************)
(* analyze_customer_sentiment                                              *)
(* (src/Frameworks/crewai.py, src/Frameworks/crewai/src/tools/analysis_tools.py) *)
(***************************************************************************)

\* The most high-priority open cases and other open cases an account has.
MaxHighCases == 3
MaxOtherOpenCases == 6

\* A case record; created_date is an ISO date string or absent.  (The two
\* functions read their own spelling of the keys: 'Priority' / 'priority'.)
CaseRecord(priority, status, created_date) ==
    [priority |-> priority, status |-> status, created_date |-> created_date]

\* The case lists of the accounts analysed: some high-priority open cases,
\* maybe a closed high-priority one, other open cases, maybe a closed one
\* without a creation date.
SentimentCaseLists ==
    { [i \in 1..h |-> CaseRecord("High", "Open", "2024-01-15")]
        \o [i \in 1..hc |-> CaseRecord("High", "Closed", "2024-01-15")]
        \o [i \in 1..o |-> CaseRecord("Low", "Open", "2024-01-15")]
        \o [i \in 1..u |-> CaseRecord("Low", "Closed", Missing)] :
        h \in 0..MaxHighCases, hc \in 0..1, o \in 0..MaxOtherOpenCases, u \in 0..1 }

\* [c for c in cases if c.get('Priority') == 'High']
HighPriorityCases(cases) == SelectSeq(cases, LAMBDA c : c.priority = "High")

\* [c for c in cases if c.get('Status') != 'Closed']
StillOpenCases(cases) == SelectSeq(cases, LAMBDA c : c.status # "Closed")

\* A score that already subtracts for two high-priority cases (mutant of
\* SentimentScore).
SentimentScoreNonStrict(cases) ==
    10 - (IF Len(HighPriorityCases(cases)) >= 2 THEN 3 ELSE 0)
       - (IF Len(StillOpenCases(cases)) > 5 THEN 2 ELSE 0)

\* sentiment_score = 10; -= 3 if more than 2 high-priority cases; -= 2 if
\* more than 5 open cases (crewai.py:93-97, analysis_tools.py:26-30).
SentimentScore(cases) ==
    10 - (IF Len(HighPriorityCases(cases)) > 2 THEN 3 ELSE 0)
       - (IF Len(StillOpenCases(cases)) > 5 THEN 2 ELSE 0)

SentimentRecommendation(score) ==
    IF score < 7 THEN "Address high-priority cases immediately"
    ELSE "Maintain current service level"

\* analyze_customer_sentiment of crewai.py (84-104).
AnalyzeCustomerSentiment(cases) ==
    [kind |-> "returned",
     sentiment_score |-> SentimentScore(cases),
     high_priority_issues |-> Len(HighPriorityCases(cases)),
     open_cases |-> Len(StillOpenCases(cases)),
     recommendation |-> SentimentRecommendation(SentimentScore(cases))]

\* analyze_customer_sentiment of analysis_tools.py (8-44): the recent-case
\* filter calls datetime.fromisoformat(c.get('created_date', '')) for every
\* case, which raises ValueError on ''.
AnalyzeCustomerSentimentTool(cases) ==
    IF \E i \in 1..Len(cases) : cases[i].created_date = Missing
    THEN Raised("ValueError")
    ELSE [kind |-> "returned",
          sentiment_score |-> IF SentimentScore(cases) > 0 THEN SentimentScore(cases) ELSE 0,
          high_priority_issues |-> Len(HighPriorityCases(cases)),
          open_cases |-> Len(StillOpenCases(cases)),
          recommendation |-> SentimentRecommendation(SentimentScore(cases))]

SeInit ==
    /\ se_cases \in SentimentCaseLists
    /\ se_version = ""
    /\ se_out = NoOutput
    /\ ExIdle
    /\ RtIdle
    /\ CtxIdle
    /\ RecIdle
    /\ WfIdle
    /\ DbIdle
    /\ PaIdle
    /\ AgIdle
    /\ SaIdle
    /\ AnIdle
    /\ ClIdle
    /\ CoIdle
    /\ XrIdle
    /\ PmIdle

\* The tool of crewai.py is called.
CallSentimentScript ==
    /\ se_version = ""
    /\ se_version' = "crewai.py"
    /\ se_out' = AnalyzeCustomerSentiment(se_cases)
    /\ UNCHANGED se_cases
    /\ SeFrame

\* The tool of analysis_tools.py is called.
CallSentimentTool ==
    /\ se_version = ""
    /\ se_version' = "analysis_tools.py"
    /\ se_out' = AnalyzeCustomerSentimentTool(se_cases)
    /\ UNCHANGED se_cases
    /\ SeFrame

SeNext ==
    \/ CallSentimentScript
    \/ CallSentimentTool

SpecSentiment == SeInit /\ [][SeNext]_vars

\* What the claim says of a returned result: the score is 10, minus 3 for
\* more than 2 high-priority cases, minus 2 for more than 5 open cases, one
\* of 5, 7, 8, 10; 'Address ...' exactly when both thresholds are exceeded.
SentimentAsClaimed(out, cases) ==
    LET high == Len(HighPriorityCases(cases))
        open == Len(StillOpenCases(cases))
    IN  /\ out.sentiment_score
              = 10 - (IF high > 2 THEN 3 ELSE 0) - (IF open > 5 THEN 2 ELSE 0)
        /\ out.sentiment_score \in {5, 7, 8, 10}
        /\ (out.recommendation = "Address high-priority cases immediately")
              = (out.sentiment_score < 7)
        /\ (out.sentiment_score < 7) = (high > 2 /\ open > 5)
        /\ (high > 2 /\ open <= 5) =>
              out.recommendation = "Maintain current service level"

\* C27: whenever analyze_customer_sentiment (either version) returns, the
\* score is 10, minus 3 for more than 2 high-priority cases, minus 2 for
\* more than 5 open cases, so one of 5, 7, 8, 10; the recommendation is
\* 'Address high-priority cases immediately' exactly when the score is below
\* 7, that is when both thresholds are exceeded; the version of crewai.py
\* always returns.
C27_SentimentScore ==
    /\ se_version = "crewai.py" => se_out.kind = "returned"
    /\ (se_version # "" /\ se_out.kind = "returned") =>
           SentimentAsClaimed(se_out, se_cases)

\* More than 2 high-priority cases, at most 5 open cases: score 7 and
\* 'Maintain current service level', from the version of analysis_tools.py.
C27_Witness ==
    /\ se_version = "analysis_tools.py"
    /\ se_out.kind = "returned"
    /\ Len(HighPriorityCases(se_cases)) > 2
    /\ Len(StillOpenCases(se_cases)) <= 5
    /\ se_out.sentiment_score = 7
    /\ se_out.recommendation = "Maintain current service level"

(***************************************************************************)
(* FrameworkOrchestrator.generate_consensus and _calculate_agreement       *)
(* (src/Frameworks/salesforce_nba_unified.py)                              *)
(***************************************************************************)

\* The most analyses compared.
MaxAnalyses == 3

\* Health scores of the analyses: the integers of [1, 10].
HealthScores == 1..10

\* All non-empty lists of at most n health scores.
RECURSIVE ScoreLists(_)
ScoreLists(n) ==
    IF n = 1 THEN { <<s>> : s \in HealthScores }
    ELSE ScoreLists(n - 1)
         \cup { Append(l, s) : l \in { t \in ScoreLists(n - 1) : Len(t) = n - 1 },
                               s \in HealthScores }

\* sum(...) over a list of integers.
RECURSIVE SumOf(_)
SumOf(l) == IF l = <<>> THEN 0 ELSE Head(l) + SumOf(Tail(l))

\* sum(s * s for s in scores)
SumOfSquares(l) == SumOf([i \in 1..Len(l) |-> l[i] * l[i]])

\* _calculate_agreement (salesforce_nba_unified.py:249-254) in exact
\* arithmetic, as the fraction num / den with den > 0:
\*   variance = sum((s - avg)^2) / n = (n * sum(s^2) - sum(s)^2) / n^2
\*   result   = 1 - variance / 10
CalculateAgreement(scores) ==
    LET n == Len(scores)
        n2_variance == n * SumOfSquares(scores) - SumOf(scores) * SumOf(scores)
    IN  [num |-> 10 * n * n - n2_variance, den |-> 10 * n * n]

\* max(health_scores) - min(health_scores)
ScoreRange(scores) ==
    LET values == { scores[i] : i \in 1..Len(scores) }
    IN  (CHOOSE hi \in values : \A v \in values : v <= hi)
        - (CHOOSE lo \in values : \A v \in values : lo <= v)

CoInit ==
    /\ co_scores \in ScoreLists(MaxAnalyses)
    /\ co_out = NoOutput
    /\ ExIdle
    /\ RtIdle
    /\ CtxIdle
    /\ RecIdle
    /\ WfIdle
    /\ DbIdle
    /\ PaIdle
    /\ AgIdle
    /\ SaIdle
    /\ AnIdle
    /\ ClIdle
    /\ SeIdle
    /\ XrIdle
    /\ PmIdle

\* generate_consensus (salesforce_nba_unified.py:234-247).
GenerateConsensus ==
    /\ co_out = NoOutput
    /\ co_out' = [kind |-> "returned",
                  health_score_variance |-> ScoreRange(co_scores),
                  framework_agreement |-> CalculateAgreement(co_scores)]
    /\ UNCHANGED co_scores
    /\ CoFrame

CoNext == GenerateConsensus

SpecConsensus == CoInit /\ [][CoNext]_vars

\* C28 (as claimed): for every non-empty set of analyses with health scores
\* in [1, 10], framework_agreement lies in [0, 1], and it is 1 exactly when
\* all health scores are equal.
C28_AgreementNormalised ==
    co_out # NoOutput =>
        LET a == co_out.framework_agreement
        IN  /\ 0 <= a.num /\ a.num <= a.den
            /\ (a.num = a.den) = (\A i, j \in 1..Len(co_scores) : co_scores[i] = co_scores[j])

(***************************************************************************)
(* AutoGenNBAWorkflow._extract_results (src/Frameworks/autogen.py)         *)
(***************************************************************************)

\* The most messages of a conversation.
MaxMessages == 3

\* The agents of the group chat (autogen.py:158-165).
Speakers == {"DataAnalyst", "Strategist", "RiskAnalyst", "ExecutionPlanner", "UserProxy"}

\* A message: its speaker and its content (absent in some messages).
Messages == [name : Speakers, content : {"a", "b", Missing}]

\* All conversations of at most n messages.
RECURSIVE Conversations(_)
Conversations(n) ==
    IF n = 0 THEN { <<>> }
    ELSE Conversations(n - 1)
         \cup { Append(c, m) : c \in { t \in Conversations(n - 1) : Len(t) = n - 1 },
                               m \in Messages }

\* msg.get("content", "")
ContentOf(msg) == IF msg.content = Missing THEN "" ELSE msg.content

\* The results dictionary before the loop (autogen.py:206-211); a dictionary
\* is the set of its key/value pairs.
EmptyResults == [analysis |-> {}, risks |-> <<>>, recommendations |-> <<>>, action_plan |-> {}]

\* A loop body that keeps only the last risk (mutant of ExtractMessage).
ExtractMessageRiskOverwritten(res, msg) ==
    IF msg.name = "DataAnalyst"
    THEN [res EXCEPT !.analysis = { <<"insights", ContentOf(msg)>> }]
    ELSE IF msg.name = "RiskAnalyst"
    THEN [res EXCEPT !.risks = << ContentOf(msg) >>]
    ELSE IF msg.name = "Strategist"
    THEN [res EXCEPT !.recommendations = Append(@, ContentOf(msg))]
    ELSE IF msg.name = "ExecutionPlanner"
    THEN [res EXCEPT !.action_plan = { <<"details", ContentOf(msg)>> }]
    ELSE res

\* The body of `for msg in messages` (autogen.py:214-226).
ExtractMessage(res, msg) ==
    IF msg.name = "DataAnalyst"
    THEN [res EXCEPT !.analysis = { <<"insights", ContentOf(msg)>> }]
    ELSE IF msg.name = "RiskAnalyst"
    THEN [res EXCEPT !.risks = Append(@, ContentOf(msg))]
    ELSE IF msg.name = "Strategist"
    THEN [res EXCEPT !.recommendations = Append(@, ContentOf(msg))]
    ELSE IF msg.name = "ExecutionPlanner"
    THEN [res EXCEPT !.action_plan = { <<"details", ContentOf(msg)>> }]
    ELSE res

\* The loop over the first k messages.
RECURSIVE ExtractLoop(_, _)
ExtractLoop(messages, k) ==
    IF k = 0 THEN EmptyResults
    ELSE ExtractMessage(ExtractLoop(messages, k - 1), messages[k])

XrInit ==
    /\ xr_conversation \in Conversations(MaxMessages)
    /\ xr_messages = xr_conversation
    /\ xr_results = NoOutput
    /\ ExIdle
    /\ RtIdle
    /\ CtxIdle
    /\ RecIdle
    /\ WfIdle
    /\ DbIdle
    /\ PaIdle
    /\ AgIdle
    /\ SaIdle
    /\ AnIdle
    /\ ClIdle
    /\ SeIdle
    /\ CoIdle
    /\ PmIdle

\* _extract_results (autogen.py:202-228): it reads the messages and writes
\* only its local results.
ExtractResults ==
    /\ xr_results = NoOutput
    /\ xr_results' = [kind |-> "returned", val |-> ExtractLoop(xr_messages, Len(xr_messages))]
    /\ UNCHANGED <<xr_conversation, xr_messages>>
    /\ XrFrame

XrNext == ExtractResults

SpecExtract == XrInit /\ [][XrNext]_vars

\* The contents of the messages of one speaker, in conversation order.
ContentsOf(speaker) ==
    LET theirs == SelectSeq(xr_conversation, LAMBDA m : m.name = speaker)
    IN  [i \in 1..Len(theirs) |-> ContentOf(theirs[i])]

\* The dictionary holding, under the key, the content of the speaker's last
\* message; empty when the speaker never spoke.
LastOf(speaker, key) ==
    LET contents == ContentsOf(speaker)
    IN  IF contents = <<>> THEN {} ELSE { <<key, contents[Len(contents)]>> }

\* C29: _extract_results returns risks = the contents of all RiskAnalyst
\* messages and recommendations = the contents of all Strategist messages,
\* in conversation order; analysis.insights and action_plan.details hold
\* only the content of the last DataAnalyst and the last ExecutionPlanner
\* message; messages of other speakers change nothing, and the conversation
\* is not modified.
C29_ExtractResults ==
    xr_results # NoOutput =>
        /\ xr_results.val.risks = ContentsOf("RiskAnalyst")
        /\ xr_results.val.recommendations = ContentsOf("Strategist")
        /\ xr_results.val.analysis = LastOf("DataAnalyst", "insights")
        /\ xr_results.val.action_plan = LastOf("ExecutionPlanner", "details")
        /\ xr_results.val
              = ExtractLoop(SelectSeq(xr_conversation, LAMBDA m : m.name # "UserProxy"),
                            Len(SelectSeq(xr_conversation, LAMBDA m : m.name # "UserProxy")))
        /\ xr_messages = xr_conversation

\* Two RiskAnalyst messages with a UserProxy message in between: both risks
\* are returned, in conversation order.
C29_Witness ==
    /\ xr_results # NoOutput
    /\ xr_conversation = << [name |-> "RiskAnalyst", content |-> "b"],
                            [name |-> "UserProxy", content |-> "a"],
                            [name |-> "RiskAnalyst", content |-> "a"] >>
    /\ xr_results.val.risks = <<"b", "a">>

(***************************************************************************)
(* process_multiple_accounts (src/extra.py)                                *)
(***************************************************************************)

\* The most account ids of one batch.
MaxBatch == 3

\* All lists of at most n account ids (an id may occur twice).
RECURSIVE IdLists(_)
IdLists(n) ==
    IF n = 0 THEN { <<>> }
    ELSE IdLists(n - 1)
         \cup { Append(l, a) : l \in { t \in IdLists(n - 1) : Len(t) = n - 1 },
                               a \in {"001A", "001B"} }

\* What get_account_data may do for one account: return its data or raise.
BatchFetches == {"data", "raises"}

\* What analyze_account_for_nba may do: return a recommendation with
\* actions, one with an empty action list, one without 'health_score', or
\* raise.
BatchAnalyses == {"actions", "no_actions", "no_health_score", "raises"}

\* A try block whose failure adds no row (mutant of RowsOf).
RowsOfFailureSkipped(id, fetch, nba) ==
    IF fetch = "raises" \/ nba \in {"raises", "no_health_score"}
    THEN <<>>
    ELSE << [account_id |-> id, account_name |-> "Acme", health_score |-> 7,
             top_action |-> IF nba = "actions" THEN "t" ELSE "None"] >>

\* The rows one loop iteration appends (extra.py:110-130): the row of the
\* try block, or, when anything in it raised, the row of the except block.
RowsOf(id, fetch, nba) ==
    IF fetch = "raises" THEN << [account_id |-> id, error |-> "SalesforceError"] >>
    ELSE IF nba = "raises" THEN << [account_id |-> id, error |-> "LlmError"] >>
    ELSE IF nba = "no_health_score" THEN << [account_id |-> id, error |-> "'health_score'"] >>
    ELSE << [account_id |-> id, account_name |-> "Acme", health_score |-> 7,
             top_action |-> IF nba = "actions" THEN "t" ELSE "None"] >>

PmInit ==
    /\ pm_account_ids \in IdLists(MaxBatch)
    /\ pm_i = 0
    /\ pm_rows = <<>>
    /\ pm_calls = <<>>
    /\ pm_pc = "loop"
    /\ ExIdle
    /\ RtIdle
    /\ CtxIdle
    /\ RecIdle
    /\ WfIdle
    /\ DbIdle
    /\ PaIdle
    /\ AgIdle
    /\ SaIdle
    /\ AnIdle
    /\ ClIdle
    /\ SeIdle
    /\ CoIdle
    /\ XrIdle

\* One iteration of `for i, account_id in enumerate(account_ids)`.
ProcessAccount(fetch, nba) ==
    /\ pm_pc = "loop"
    /\ pm_i < Len(pm_account_ids)
    /\ pm_i' = pm_i + 1
    /\ pm_calls' = Append(pm_calls, pm_account_ids[pm_i + 1])
    /\ pm_rows' = pm_rows \o RowsOf(pm_account_ids[pm_i + 1], fetch, nba)
    /\ UNCHANGED <<pm_account_ids, pm_pc>>
    /\ PmFrame

\* return pd.DataFrame(results)
ProcessReturn ==
    /\ pm_pc = "loop"
    /\ pm_i = Len(pm_account_ids)
    /\ pm_pc' = "returned"
    /\ UNCHANGED <<pm_account_ids, pm_i, pm_rows, pm_calls>>
    /\ PmFrame

PmNext ==
    \/ \E fetch \in BatchFetches, nba \in BatchAnalyses : ProcessAccount(fetch, nba)
    \/ ProcessReturn

SpecBatch == PmInit /\ [][PmNext]_vars

\* C30: process_multiple_accounts returns exactly one row per input account
\* id, in input order; a failure while fetching or analysing an account
\* yields a row with that account id and the error text, and the remaining
\* accounts are still processed; no list entry is processed twice.
C30_OneRowPerAccount ==
    /\ Len(pm_rows) = pm_i
    /\ pm_calls = SubSeq(pm_account_ids, 1, pm_i)
    /\ \A k \in 1..Len(pm_rows) :
           /\ pm_rows[k].account_id = pm_account_ids[k]
           /\ DOMAIN pm_rows[k] \in { {"account_id", "error"},
                                      {"account_id", "account_name", "health_score",
                                       "top_action"} }
    /\ pm_pc = "returned" => pm_i = Len(pm_account_ids)

\* A batch of three whose first account failed and whose later accounts
\* were still processed.
C30_Witness ==
    /\ pm_pc = "returned"
    /\ Len(pm_rows) = 3
    /\ "error" \in DOMAIN pm_rows[1]
    /\ "error" \notin DOMAIN pm_rows[2]
    /\ "health_score" \in DOMAIN pm_rows[3]

====
